---------------------------- MODULE Spec2Model ----------------------------
(***************************************************************************)
(* Patient registration form: the identifier and phone validators          *)
(* (src/lib/validators.ts), the zod record schema (src/lib/schema.ts) and  *)
(* the submit path of the form (components/patient-form/PatientForm.tsx).  *)
(*                                                                         *)
(* JavaScript strings whose characters matter (id, phone number, names,    *)
(* street-number text) are sequences of one-character strings; opaque      *)
(* tokens (codes, enum members, messages) are TLA+ strings.                *)
(***************************************************************************)
EXTENDS Integers, Sequences, FiniteSets, TLC

VARIABLES
    idIn,       \* the string handed to isValidIsraeliId
    idValid,    \* what isValidIsraeliId returned for idIn
    idEdits,    \* number of edits applied to the seed identifier
    phIn,       \* the string handed to isValidIsraeliPhoneNumber
    phValid,    \* what isValidIsraeliPhoneNumber returned for phIn
    phEdits,    \* number of edits applied to the seed phone string
    raw,        \* the raw record handed to patientSchema
    result,     \* what patientSchema.safeParse returned for raw
    rawEdits,   \* number of edits applied to the seed record
    values,     \* the record the form holds (react-hook-form's values)
    isSubmitting, \* formState.isSubmitting: a submission is under way
    posted,     \* the records handed to postPatientData, in order
    timers,     \* pending setTimeout callbacks of removePhoneRow: for each,
                \* whether the removed row was the main one
    marks,      \* history: how many times such a callback marked a row as
                \* main
    formEdits,  \* number of changes the user made to the form
    cityBox,    \* the shared city combobox of PatientForm: its query, the
                \* debounced query, the pending debounce timers (each the
                \* value it will set), the candidate list, the loading flag
    streetBox,  \* the street combobox of each address row, same fields
    calls,      \* the calls of fetchCities and fetchStreets made so far
    typed,      \* number of changes the user made to a lookup query
    attempts,   \* the submissions made so far, each with its travel through
                \* the relay and the webhook
    toasts      \* the notifications shown to the user (sonner's toast), in
                \* order

idVars == <<idIn, idValid, idEdits>>
phVars == <<phIn, phValid, phEdits>>
rawVars == <<raw, result, rawEdits>>
formVars == <<values, isSubmitting, posted, timers, marks, formEdits>>
lookupVars == <<cityBox, streetBox, calls, typed>>
vars == <<idVars, phVars, rawVars, formVars, lookupVars, attempts, toasts>>

-----------------------------------------------------------------------------
(* Characters *)

Digit == {"0", "1", "2", "3", "4", "5", "6", "7", "8", "9"}

\* NaN of JavaScript arithmetic; every other number of the validators is >= 0.
NaN == -1

\* Number(c) for a one-character string c: the digit's value, 0 for white
\* space (Number(" ") is 0), NaN for anything else.
Number(c) ==
    CASE c = "0" -> 0 [] c = "1" -> 1 [] c = "2" -> 2 [] c = "3" -> 3
      [] c = "4" -> 4 [] c = "5" -> 5 [] c = "6" -> 6 [] c = "7" -> 7
      [] c = "8" -> 8 [] c = "9" -> 9 [] c = " " -> 0 [] OTHER -> NaN

\* /^\d{n}$/.test(s)
AllDigits(s) == \A i \in 1..Len(s) : s[i] \in Digit

-----------------------------------------------------------------------------
(* isValidIsraeliId, validators.ts:8-20 *)

ID_LENGTH == 9

\* the weights exchanged: 2 at even positions, 1 at odd ones
IdStep_SwappedWeights(digit, i) ==
    IF digit = NaN THEN NaN ELSE digit * (((i + 1) % 2) + 1)

\* line 16: step = digit * ((i % 2) + 1), i the 0-based position
IdStep(digit, i) == IF digit = NaN THEN NaN ELSE digit * ((i % 2) + 1)

\* the product kept as it is, never reduced by 9
IdAdjust_NoSubtract(step) == step

\* line 17: step > 9 ? step - 9 : step   (NaN > 9 is false)
IdAdjust(step) == IF step # NaN /\ step > 9 THEN step - 9 ELSE step

\* lines 13-18: the loop from position i (0-based) with the running sum
RECURSIVE IdSumFrom(_, _, _)
IdSumFrom(id, i, sum) ==
    IF i >= ID_LENGTH THEN sum
    ELSE LET digit == IF i + 1 <= Len(id) THEN Number(id[i + 1]) ELSE NaN
             adj   == IdAdjust(IdStep(digit, i))
             next  == IF sum = NaN \/ adj = NaN THEN NaN ELSE sum + adj
         IN  IdSumFrom(id, i + 1, next)

\* the length test alone, without the digit pattern
IdShapeRejected_LengthOnly(id) == id = <<>> \/ Len(id) # ID_LENGTH

\* line 9: !id || id.length !== 9 || !/^\d{9}$/.test(id)
IdShapeRejected(id) ==
    id = <<>> \/ Len(id) # ID_LENGTH \/ ~(Len(id) = ID_LENGTH /\ AllDigits(id))

isValidIsraeliId(id) ==
    IF IdShapeRejected(id) THEN FALSE
    ELSE LET sum == IdSumFrom(id, 0, 0)
         IN  sum # NaN /\ sum % 10 = 0

-----------------------------------------------------------------------------
(* isValidIsraeliPhoneNumber, validators.ts:22-37 *)

\* line 28: phone.replace(/\D/g, "")
RECURSIVE cleaned(_)
cleaned(phone) ==
    IF phone = <<>> THEN <<>>
    ELSE IF Head(phone) \in Digit THEN <<Head(phone)>> \o cleaned(Tail(phone))
         ELSE cleaned(Tail(phone))

\* the group with 7[0-9] in place of 7[1-9]
PrefixMatches_SevenAnyDigit(s) ==
    { n \in {1, 2} :
        /\ Len(s) >= 1 + n
        /\ \/ n = 1 /\ s[2] \in {"2", "3", "4", "8", "9"}
           \/ n = 2 /\ s[2] \in {"5", "7"} /\ s[3] \in Digit }

\* The alternatives of the group (2|3|4|5[0-9]|7[1-9]|8|9) matched at s[2..]:
\* the set of lengths (1 or 2) of the prefixes that match there.
PrefixMatches(s) ==
    { n \in {1, 2} :
        /\ Len(s) >= 1 + n
        /\ \/ n = 1 /\ s[2] \in {"2", "3", "4", "8", "9"}
           \/ n = 2 /\ s[2] = "5" /\ s[3] \in Digit
           \/ n = 2 /\ s[2] = "7" /\ s[3] \in (Digit \ {"0"}) }

PHONE_TAIL_DIGITS == 7

\* line 34: /^(0(2|3|4|5[0-9]|7[1-9]|8|9))\d{7}$/.test(s)
israelPhoneRegex(s) ==
    /\ Len(s) >= 1
    /\ s[1] = "0"
    /\ \E n \in PrefixMatches(s) :
          /\ Len(s) = 1 + n + PHONE_TAIL_DIGITS
          /\ \A i \in (2 + n)..Len(s) : s[i] \in Digit

isValidIsraeliPhoneNumber(phone) ==
    IF phone = <<>> THEN FALSE
    ELSE israelPhoneRegex(cleaned(phone))

-----------------------------------------------------------------------------
(* zod parsing, as used by schema.ts                                       *)
(*                                                                         *)
(* A JavaScript object is a record; a key that is missing (or undefined)   *)
(* is a field the record does not have.  A parse returns its status        *)
(* ("valid", "dirty": issues were added but parsing went on, "aborted":    *)
(* INVALID, no value), the issues it added in order, and the parsed value  *)
(* unless it aborted or parsed a missing optional key.  Paths are          *)
(* sequences of strings, array indices 0-based as zod writes them.         *)

Has(obj, key) == key \in DOMAIN obj

Issue(path, message) == [path |-> path, message |-> message]

Valid(v) == [status |-> "valid", issues |-> <<>>, value |-> v]

Dirty(v, issues) == [status |-> "dirty", issues |-> issues, value |-> v]

INVALID(issues) == [status |-> "aborted", issues |-> issues]

\* a missing optional key: valid, and no key in the parsed object
Missing == [status |-> "valid", issues |-> <<>>]

\* the status after the issues of a parse that does not abort
WithIssues(v, issues) == IF issues = <<>> THEN Valid(v) ELSE Dirty(v, issues)

\* ParseStatus.mergeObjectSync / mergeArray on the statuses of the parts
MergeStatus(parts) ==
    IF \E i \in 1..Len(parts) : parts[i].status = "aborted" THEN "aborted"
    ELSE IF \E i \in 1..Len(parts) : parts[i].status = "dirty" THEN "dirty"
    ELSE "valid"

RECURSIVE ConcatIssues(_)
ConcatIssues(parts) ==
    IF parts = <<>> THEN <<>>
    ELSE Head(parts).issues \o ConcatIssues(Tail(parts))

Index(i) == ToString(i - 1)

\* a trim that drops one leading space only
TrimStart_OneSpace(s) == IF s # <<>> /\ Head(s) = " " THEN Tail(s) ELSE s

\* WhiteSpace and LineTerminator of ECMAScript, which String.prototype.trim
\* and StringToNumber strip.  Four of them have no escape and are written as
\* the character itself: U+000B, U+00A0, U+FEFF and U+1680.  The others
\* (U+2000-200A, U+2028, U+2029, U+202F, U+205F, U+3000) cannot be written in
\* a string of this module, so no text of the model holds them.
LineTabulation == ""

NoBreakSpace == " "

ZeroWidthNoBreakSpace == "﻿"

OghamSpaceMark == " "

WhiteSpace ==
    {" ", "\t", "\n", "\r", "\f", LineTabulation, NoBreakSpace,
     ZeroWidthNoBreakSpace, OghamSpaceMark}

\* String.prototype.trim on a sequence of characters
RECURSIVE TrimStart(_)
TrimStart(s) ==
    IF s # <<>> /\ Head(s) \in WhiteSpace THEN TrimStart(Tail(s)) ELSE s

RECURSIVE TrimEnd(_)
TrimEnd(s) ==
    IF s # <<>> /\ s[Len(s)] \in WhiteSpace
    THEN TrimEnd(SubSeq(s, 1, Len(s) - 1)) ELSE s

Trim(s) == TrimEnd(TrimStart(s))

\* z.string() on obj[key]: a missing key aborts with "Required"
ZodString(obj, key, path) ==
    IF Has(obj, key) THEN Valid(obj[key])
    ELSE INVALID(<<Issue(path, "Required")>>)

\* .trim() of ZodString
ZodTrim(r) == IF r.status = "aborted" THEN r ELSE [r EXCEPT !.value = Trim(@)]

\* the members of an enum, whose options are kept in the order of the source
Members(options) == {options[i] : i \in 1..Len(options)}

\* util.joinValues(options): each option quoted, joined by " | "
RECURSIVE JoinValues(_)
JoinValues(options) ==
    IF options = <<>> THEN ""
    ELSE IF Len(options) = 1 THEN "'" \o options[1] \o "'"
    ELSE "'" \o options[1] \o "' | " \o JoinValues(Tail(options))

\* the message of zod's default error map for invalid_enum_value
InvalidEnumValue(options, received) ==
    "Invalid enum value. Expected " \o JoinValues(options)
        \o ", received '" \o received \o "'"

\* z.enum(options, {required_error}) on obj[key]: any failure aborts
ZodEnum(options, requiredError, obj, key, path) ==
    IF ~Has(obj, key) THEN INVALID(<<Issue(path, requiredError)>>)
    ELSE IF obj[key] \notin Members(options)
         THEN INVALID(<<Issue(path, InvalidEnumValue(options, obj[key]))>>)
         ELSE Valid(obj[key])

\* z.object(shape): every key is parsed; the object aborts when a key aborts,
\* the issues of all keys staying reported; unknown keys are stripped
ZodObject(keys, parts) ==
    IF MergeStatus(parts) = "aborted" THEN INVALID(ConcatIssues(parts))
    ELSE [status |-> MergeStatus(parts),
          issues |-> ConcatIssues(parts),
          value  |-> [k \in {keys[i] : i \in {j \in 1..Len(keys) : Has(parts[j], "value")}} |->
                        parts[CHOOSE i \in 1..Len(keys) : keys[i] = k].value]]

\* an array without its minimum length
ZodArrayMin1_NoMinimum(items, parts, minMessage, path) ==
    IF MergeStatus(parts) = "aborted"
    THEN INVALID(ConcatIssues(parts))
    ELSE WithIssues([i \in 1..Len(items) |-> parts[i].value], ConcatIssues(parts))

\* z.array(element).min(1, message): the length issue does not abort; the
\* array aborts when an element aborts, the issues staying reported
ZodArrayMin1(items, parts, minMessage, path) ==
    IF MergeStatus(parts) = "aborted"
    THEN INVALID((IF Len(items) < 1 THEN <<Issue(path, minMessage)>> ELSE <<>>)
                 \o ConcatIssues(parts))
    ELSE WithIssues([i \in 1..Len(items) |-> parts[i].value],
                    (IF Len(items) < 1 THEN <<Issue(path, minMessage)>> ELSE <<>>)
                    \o ConcatIssues(parts))

\* safeParse: success with the parsed value, or failure with every issue
SafeParse(r) ==
    IF r.status = "valid" THEN [success |-> TRUE, issues |-> <<>>, data |-> r.value]
    ELSE [success |-> FALSE, issues |-> r.issues]

-----------------------------------------------------------------------------
(* JavaScript numbers of the street-number field.  A finite number is      *)
(* coef * 10^(-scale) with a coef that does not end in 0 (0 has scale 0):  *)
(* 2.5 is 25 with scale 1, 120 is 12 with scale -1.  This is the number a  *)
(* decimal text denotes when it has up to 9 digits from its first to its   *)
(* last digit other than 0, whatever its length and its exponent; a text   *)
(* with more such digits is outside the integers of the checker, which     *)
(* stops at it, and so is the rounding of subnormal values.                *)

RECURSIVE Pow10(_)
Pow10(k) == IF k <= 0 THEN 1 ELSE 10 * Pow10(k - 1)

\* coef * 10^(-scale) in its one written form
RECURSIVE JSNumber(_, _)
JSNumber(coef, scale) ==
    IF coef = 0 THEN [kind |-> "number", coef |-> 0, scale |-> 0, text |-> <<>>]
    ELSE IF coef % 10 = 0 THEN JSNumber(coef \div 10, scale - 1)
    ELSE [kind |-> "number", coef |-> coef, scale |-> scale, text |-> <<>>]

JSNaN == [kind |-> "NaN", coef |-> 0, scale |-> 0, text |-> <<>>]

\* Infinity; -Infinity has coef -1
JSInfinity == [kind |-> "Infinity", coef |-> 1, scale |-> 0, text |-> <<>>]

JSString(text) == [kind |-> "string", coef |-> 0, scale |-> 0, text |-> text]

\* the value of one digit of a radix up to 16, NaN for any other character
DigitValue(c) ==
    CASE c \in Digit -> Number(c)
      [] c \in {"a", "A"} -> 10 [] c \in {"b", "B"} -> 11
      [] c \in {"c", "C"} -> 12 [] c \in {"d", "D"} -> 13
      [] c \in {"e", "E"} -> 14 [] c \in {"f", "F"} -> 15
      [] OTHER -> NaN

\* every character of ds is a digit of the radix
AllDigitsOf(ds, radix) ==
    \A i \in 1..Len(ds) : DigitValue(ds[i]) # NaN /\ DigitValue(ds[i]) < radix

\* the value of a run of digits of the radix
RECURSIVE RadixValue(_, _)
RadixValue(ds, radix) ==
    IF ds = <<>> THEN 0
    ELSE radix * RadixValue(SubSeq(ds, 1, Len(ds) - 1), radix)
         + DigitValue(ds[Len(ds)])

\* the value of a run of decimal digits
DigitsValue(ds) == RadixValue(ds, 10)

\* the position of the first character of t that is in chars, 0 when none is
FirstOf(t, chars) ==
    IF \E i \in 1..Len(t) : t[i] \in chars
    THEN CHOOSE i \in 1..Len(t) :
            t[i] \in chars /\ \A j \in 1..(i - 1) : t[j] \notin chars
    ELSE 0

\* the text before position i, all of it when i is 0
Before(t, i) == IF i = 0 THEN t ELSE SubSeq(t, 1, i - 1)

\* the text after position i, none when i is 0
After(t, i) == IF i = 0 THEN <<>> ELSE SubSeq(t, i + 1, Len(t))

\* DecimalDigits . DecimalDigits(opt), . DecimalDigits or DecimalDigits
IsMantissa(m) ==
    /\ AllDigits(Before(m, FirstOf(m, {"."})))
    /\ AllDigits(After(m, FirstOf(m, {"."})))
    /\ Len(Before(m, FirstOf(m, {"."}))) + Len(After(m, FirstOf(m, {"."}))) >= 1

\* SignedInteger of an ExponentPart
IsSignedInteger(x) ==
    /\ x # <<>>
    /\ IF Head(x) \in {"+", "-"} THEN Tail(x) # <<>> /\ AllDigits(Tail(x))
       ELSE AllDigits(x)

\* the positions of the first and of the last digit of ds other than 0,
\* 0 when ds has none
FirstNonZero(ds) ==
    IF \E i \in 1..Len(ds) : ds[i] # "0"
    THEN CHOOSE i \in 1..Len(ds) :
            ds[i] # "0" /\ \A j \in 1..(i - 1) : ds[j] = "0"
    ELSE 0

LastNonZero(ds) ==
    IF \E i \in 1..Len(ds) : ds[i] # "0"
    THEN CHOOSE i \in 1..Len(ds) :
            ds[i] # "0" /\ \A j \in (i + 1)..Len(ds) : ds[j] = "0"
    ELSE 0

\* a run of digits without its leading zeros
Significant(ds) ==
    IF FirstNonZero(ds) = 0 THEN <<>> ELSE SubSeq(ds, FirstNonZero(ds), Len(ds))

\* the digits of a mantissa from its first to its last digit other than 0
CoefficientDigits(ds) ==
    IF FirstNonZero(ds) = 0 THEN <<>>
    ELSE SubSeq(ds, FirstNonZero(ds), LastNonZero(ds))

\* e - a for the e >= 0 that the digits ds write and a number a >= 0: the
\* difference when it is between -1000 and 1000, and -1000 or 1000 when it
\* is beyond, which is beyond every power of ten of a double.  An e of up to
\* ten digits is taken as ten times its leading digits plus its last one.
ClippedLess(ds, a) ==
    LET leading == DigitsValue(SubSeq(Significant(ds), 1, Len(Significant(ds)) - 1))
        last == IF ds = <<>> THEN 0 ELSE DigitValue(ds[Len(ds)])
    IN  IF Len(Significant(ds)) > 10 THEN 1000
        ELSE IF leading - (a \div 10) > 200 THEN 1000
        ELSE IF leading - (a \div 10) < -200 THEN -1000
        ELSE IF 10 * (leading - (a \div 10)) + last - (a % 10) > 1000 THEN 1000
        ELSE IF 10 * (leading - (a \div 10)) + last - (a % 10) < -1000 THEN -1000
        ELSE 10 * (leading - (a \div 10)) + last - (a % 10)

\* e + a for the same e and a: the sum up to 1000, and 1000 beyond
ClippedSum(ds, a) ==
    IF Len(Significant(ds)) > 4 \/ a > 1000 THEN 1000
    ELSE IF DigitsValue(Significant(ds)) + a > 1000 THEN 1000
    ELSE DigitsValue(Significant(ds)) + a

\* e - k for the exponent e that the text x writes ("" writes 0) and any
\* number k, exact between -1000 and 1000 and -1000 or 1000 beyond
ExponentLess(x, k) ==
    IF x # <<>> /\ Head(x) = "-"
    THEN IF k >= 0 THEN 0 - ClippedSum(Tail(x), k)
         ELSE 0 - ClippedLess(Tail(x), 0 - k)
    ELSE IF x # <<>> /\ Head(x) = "+"
    THEN IF k >= 0 THEN ClippedLess(Tail(x), k) ELSE ClippedSum(Tail(x), 0 - k)
    ELSE IF k >= 0 THEN ClippedLess(x, k) ELSE ClippedSum(x, 0 - k)

\* the number of decimal digits of c > 0
RECURSIVE DigitCount(_)
DigitCount(c) == IF c < 10 THEN 1 ELSE 1 + DigitCount(c \div 10)

\* the first nine digits of c > 0 (c has at most ten)
LeadingDigits(c) ==
    IF DigitCount(c) > 9 THEN c \div 10 ELSE c * Pow10(9 - DigitCount(c))

\* coef * 10^(-scale), coef > 0, rounds to Infinity: it is at least
\* 2^1024 - 2^970 = 1.797693134862315807...e308, half way between the
\* largest double and 2^1024
RoundsToInfinity(coef, scale) ==
    \/ DigitCount(coef) - scale > 309
    \/ /\ DigitCount(coef) - scale = 309
       /\ IF DigitCount(coef) > 9 THEN coef >= 1797693135
          ELSE LeadingDigits(coef) >= 179769314

\* coef * 10^(-scale), coef > 0, rounds to 0: it is at most
\* 2^-1075 = 2.4703282292...e-324, half the least double
RoundsToZero(coef, scale) ==
    \/ DigitCount(coef) - scale < -323
    \/ DigitCount(coef) - scale = -323 /\ LeadingDigits(coef) <= 247032822

\* the double nearest to coef * 10^(-scale), coef > 0
Rounded(coef, scale) ==
    IF RoundsToInfinity(coef, scale) THEN JSInfinity
    ELSE IF RoundsToZero(coef, scale) THEN JSNumber(0, 0)
    ELSE JSNumber(coef, scale)

\* the value of the mantissa m with the exponent text x ("" when there is
\* none): the digits of m from the first to the last one other than 0, times
\* the power of ten that the exponent and the place of the last such digit
\* after the point (before it when negative) make
DecimalValue(m, x) ==
    IF FirstNonZero(Before(m, FirstOf(m, {"."})) \o After(m, FirstOf(m, {"."}))) = 0
    THEN JSNumber(0, 0)
    ELSE Rounded(
            DigitsValue(CoefficientDigits(Before(m, FirstOf(m, {"."}))
                                          \o After(m, FirstOf(m, {"."})))),
            0 - ExponentLess(x, LastNonZero(Before(m, FirstOf(m, {"."}))
                                            \o After(m, FirstOf(m, {"."})))
                                - Len(Before(m, FirstOf(m, {"."})))))

InfinityText == <<"I", "n", "f", "i", "n", "i", "t", "y">>

\* StrUnsignedDecimalLiteral: Infinity, or a mantissa with an optional
\* exponent part; NaN otherwise
UnsignedLiteral(t) ==
    IF t = InfinityText THEN JSInfinity
    ELSE IF /\ IsMantissa(Before(t, FirstOf(t, {"e", "E"})))
            /\ \/ FirstOf(t, {"e", "E"}) = 0
               \/ IsSignedInteger(After(t, FirstOf(t, {"e", "E"})))
         THEN DecimalValue(Before(t, FirstOf(t, {"e", "E"})),
                           After(t, FirstOf(t, {"e", "E"})))
         ELSE JSNaN

\* the radix of a NonDecimalIntegerLiteral 0x.., 0o.., 0b.., 0 when t is none
RadixOf(t) ==
    IF Len(t) >= 2 /\ t[1] = "0"
    THEN CASE t[2] \in {"x", "X"} -> 16
           [] t[2] \in {"o", "O"} -> 8
           [] t[2] \in {"b", "B"} -> 2
           [] OTHER -> 0
    ELSE 0

\* NonDecimalIntegerLiteral: the prefix and at least one digit of the radix
NonDecimalLiteral(t) ==
    IF Len(t) >= 3 /\ AllDigitsOf(SubSeq(t, 3, Len(t)), RadixOf(t))
    THEN JSNumber(RadixValue(SubSeq(t, 3, Len(t)), RadixOf(t)), 0)
    ELSE JSNaN

Negate(n) == IF n.kind = "NaN" THEN JSNaN ELSE [n EXCEPT !.coef = 0 - @]

\* Number(text), StringToNumber of ECMAScript: white space is trimmed, "" is
\* 0, a non-decimal literal takes no sign, a decimal literal takes + or -,
\* anything else is NaN
StringToNumber(text) ==
    IF Trim(text) = <<>> THEN JSNumber(0, 0)
    ELSE IF RadixOf(Trim(text)) # 0 THEN NonDecimalLiteral(Trim(text))
    ELSE IF Head(Trim(text)) = "-" THEN Negate(UnsignedLiteral(Tail(Trim(text))))
    ELSE IF Head(Trim(text)) = "+" THEN UnsignedLiteral(Tail(Trim(text)))
    ELSE UnsignedLiteral(Trim(text))

\* z.coerce.number({invalid_type_error}): Number(input), NaN aborting;
\* Number(undefined) is NaN
CoerceNumber(obj, key, message, path) ==
    IF ~Has(obj, key) THEN INVALID(<<Issue(path, message)>>)
    ELSE IF obj[key].kind = "string"
         THEN IF StringToNumber(obj[key].text).kind = "NaN"
              THEN INVALID(<<Issue(path, message)>>)
              ELSE Valid(StringToNumber(obj[key].text))
    ELSE IF obj[key].kind = "NaN" THEN INVALID(<<Issue(path, message)>>)
    ELSE Valid(obj[key])

-----------------------------------------------------------------------------
(* schema.ts *)

phoneTypeEnum == <<"Home", "Mobile", "Work", "Other">>

addressTypeEnum == <<"Home", "Work", "Other">>

hmoEnum == <<"Clalit", "Maccabi", "Mehuedet", "Leumit">>

\* .min(1, ...) of the strings typed as sequences of characters
MinLength1(v) == Len(v) >= 1

\* .min(1, ...) of the address strings
NonEmptyText(v) == v # ""

\* .length(9, ...)
HasIdLength(v) == Len(v) = ID_LENGTH

\* a number check that lets fractions through
IsWholeNumber_Always(n) == TRUE

\* .int(...): Number.isInteger
IsWholeNumber(n) == n.kind = "number" /\ n.scale <= 0

\* .positive(...): n > 0
IsPositive(n) == n.coef > 0

\* .min(1, ...) of a number: n >= 1
AtLeastOne(n) ==
    IF n.scale <= 0 THEN n.coef >= 1
    ELSE n.scale <= 9 /\ n.coef >= Pow10(n.scale)

MAX_COMMENT_LENGTH == 500

\* .max(500, ...)
WithinCommentLength(v) == Len(v) <= MAX_COMMENT_LENGTH

\* the checks and refinements the schemas use, by name
Satisfies(check, v) ==
    CASE check = "min(1)" -> MinLength1(v)
      [] check = "min(1) text" -> NonEmptyText(v)
      [] check = "length(9)" -> HasIdLength(v)
      [] check = "int" -> IsWholeNumber(v)
      [] check = "positive" -> IsPositive(v)
      [] check = "min(1) number" -> AtLeastOne(v)
      [] check = "max(500)" -> WithinCommentLength(v)
      [] check = "isValidIsraeliId" -> isValidIsraeliId(v)
      [] check = "isValidIsraeliPhoneNumber" -> isValidIsraeliPhoneNumber(v)

\* a check of ZodString or ZodNumber (.min, .max, .length, .int, .positive):
\* a failing check adds its issue and parsing goes on
Check(r, check, message, path) ==
    IF r.status = "aborted" \/ Satisfies(check, r.value) THEN r
    ELSE Dirty(r.value, Append(r.issues, Issue(path, message)))

\* .refine(pred, {message}): ZodEffects skips the refinement when the inner
\* parse aborted and runs it when the inner parse is valid or dirty
Refine(r, pred, message, path) ==
    IF r.status = "aborted" \/ Satisfies(pred, r.value) THEN r
    ELSE Dirty(r.value, Append(r.issues, Issue(path, message)))

\* phoneNumberSchema.number, schema.ts:23-29
PhoneNumberField(p, path) ==
    Refine(Check(ZodString(p, "number", path), "min(1)",
                 "Phone number is required", path),
           "isValidIsraeliPhoneNumber", "Invalid Israeli phone number format", path)

\* phoneNumberSchema.isMain, schema.ts:30: z.boolean().default(false)
IsMainField(p) == IF Has(p, "isMain") THEN Valid(p.isMain) ELSE Valid(FALSE)

\* phoneNumberSchema, schema.ts:18-31
phoneNumberSchema(p, path) ==
    ZodObject(<<"type", "number", "isMain">>,
              << ZodEnum(phoneTypeEnum, "Phone type is required", p, "type",
                         Append(path, "type")),
                 PhoneNumberField(p, Append(path, "number")),
                 IsMainField(p) >>)

\* z.string().min(1, message) of the four code and name fields, schema.ts:34-37
RequiredText(a, key, message, path) ==
    Check(ZodString(a, key, path), "min(1) text", message, path)

\* addressSchema.streetNumber, schema.ts:38-42
StreetNumberField(a, path) ==
    Check(Check(Check(CoerceNumber(a, "streetNumber",
                                   "Street number must be a number", path),
                      "int", "Street number must be a whole number", path),
                "positive", "Street number must be positive", path),
          "min(1) number", "Street number is required", path)

\* addressSchema.comments, schema.ts:44: z.string().max(500).optional()
CommentsField(a, path) ==
    IF ~Has(a, "comments") THEN Missing
    ELSE Check(Valid(a.comments), "max(500)", "Comments too long", path)

\* addressSchema, schema.ts:33-45
addressSchema(a, path) ==
    ZodObject(<<"cityCode", "cityName", "streetCode", "streetName",
                "streetNumber", "addressType", "comments">>,
              << RequiredText(a, "cityCode", "City selection is required",
                              Append(path, "cityCode")),
                 RequiredText(a, "cityName", "City name is required",
                              Append(path, "cityName")),
                 RequiredText(a, "streetCode", "Street selection is required",
                              Append(path, "streetCode")),
                 RequiredText(a, "streetName", "Street name is required",
                              Append(path, "streetName")),
                 StreetNumberField(a, Append(path, "streetNumber")),
                 ZodEnum(addressTypeEnum, "Address type is required", a,
                         "addressType", Append(path, "addressType")),
                 CommentsField(a, Append(path, "comments")) >>)

\* every entry of phones[from..] flagged, main or not
RECURSIVE OnlyOneMainIssues_EveryEntry(_, _, _)
OnlyOneMainIssues_EveryEntry(phones, from, path) ==
    IF from > Len(phones) THEN <<>>
    ELSE <<Issue(path \o <<Index(from), "isMain">>, "Only one phone can be main.")>>
         \o OnlyOneMainIssues_EveryEntry(phones, from + 1, path)

\* the issues of phones[from..] marked main, schema.ts:72-80
RECURSIVE OnlyOneMainIssues(_, _, _)
OnlyOneMainIssues(phones, from, path) ==
    IF from > Len(phones) THEN <<>>
    ELSE (IF phones[from].isMain
          THEN <<Issue(path \o <<Index(from), "isMain">>, "Only one phone can be main.")>>
          ELSE <<>>) \o OnlyOneMainIssues(phones, from + 1, path)

IsMain(p) == p.isMain

\* line 62: phones.filter((p) => p.isMain)
mainPhones(phones) == SelectSeq(phones, IsMain)

\* the root error whenever the number of main entries is not one
MainPhoneRule_RootUnlessOne(phones, path) ==
    IF Len(mainPhones(phones)) # 1
    THEN <<Issue(path, "One phone number must be marked as main.")>>
    ELSE <<>>

\* the superRefine callback of patientSchema.phoneNumbers, schema.ts:61-82:
\* the issues it adds for the parsed phone list
MainPhoneRule(phones, path) ==
    IF Len(mainPhones(phones)) = 0
    THEN <<Issue(path, "One phone number must be marked as main.")>>
    ELSE IF Len(mainPhones(phones)) > 1
         THEN OnlyOneMainIssues(phones, 1, path)
         ELSE <<>>

\* ZodEffects around the array: the callback runs unless the array aborted
SuperRefine(r, path) ==
    IF r.status = "aborted" THEN r
    ELSE WithIssues(r.value, r.issues \o MainPhoneRule(r.value, path))

\* patientSchema.phoneNumbers, schema.ts:58-82
PhoneNumbersField(rec) ==
    IF ~Has(rec, "phoneNumbers") THEN INVALID(<<Issue(<<"phoneNumbers">>, "Required")>>)
    ELSE SuperRefine(
            ZodArrayMin1(rec.phoneNumbers,
                         [i \in 1..Len(rec.phoneNumbers) |->
                            phoneNumberSchema(rec.phoneNumbers[i],
                                              <<"phoneNumbers", Index(i)>>)],
                         "At least one phone number is required", <<"phoneNumbers">>),
            <<"phoneNumbers">>)

\* patientSchema.addresses, schema.ts:84-86
AddressesField(rec) ==
    IF ~Has(rec, "addresses") THEN INVALID(<<Issue(<<"addresses">>, "Required")>>)
    ELSE ZodArrayMin1(rec.addresses,
                      [i \in 1..Len(rec.addresses) |->
                         addressSchema(rec.addresses[i], <<"addresses", Index(i)>>)],
                      "At least one address is required", <<"addresses">>)

\* patientSchema.id, schema.ts:49-55
IdField(rec) ==
    Refine(Check(ZodString(rec, "id", <<"id">>), "length(9)",
                 "ID must be exactly 9 digits", <<"id">>),
           "isValidIsraeliId", "Invalid Israeli ID number", <<"id">>)

\* a name checked as typed, without the trim
NameField_NoTrim(rec, key, message) ==
    Check(ZodString(rec, key, <<key>>), "min(1)", message, <<key>>)

\* patientSchema.firstName / lastName, schema.ts:56-57: trim, then min(1)
NameField(rec, key, message) ==
    Check(ZodTrim(ZodString(rec, key, <<key>>)), "min(1)", message, <<key>>)

\* patientSchema, schema.ts:48-87, through safeParse
patientSchema(rec) ==
    SafeParse(
        ZodObject(<<"id", "firstName", "lastName", "phoneNumbers", "hmo", "addresses">>,
                  << IdField(rec),
                     NameField(rec, "firstName", "First name is required"),
                     NameField(rec, "lastName", "Last name is required"),
                     PhoneNumbersField(rec),
                     ZodEnum(hmoEnum, "HMO is required", rec, "hmo", <<"hmo">>),
                     AddressesField(rec) >>))

-----------------------------------------------------------------------------
(* Records *)

Str_000000018 == <<"0","0","0","0","0","0","0","1","8">>
Str_123456789 == <<"1","2","3","4","5","6","7","8","9">>
Str_050_123_4567 == <<"0","5","0","-","1","2","3","-","4","5","6","7">>
Str_02_1234567 == <<"0","2","-","1","2","3","4","5","6","7">>
Str_1234567 == <<"1","2","3","4","5","6","7">>

\* object[key] = value
Put(obj, key, value) ==
    [k \in DOMAIN obj \cup {key} |-> IF k = key THEN value ELSE obj[k]]

\* delete object[key]
Drop(obj, key) == [k \in DOMAIN obj \ {key} |-> obj[k]]

RemoveAt(seq, i) == SubSeq(seq, 1, i - 1) \o SubSeq(seq, i + 1, Len(seq))

\* PatientForm.tsx:64-68
defaultPhoneNumber == [type |-> "Mobile", number |-> <<>>, isMain |-> FALSE]

\* PatientForm.tsx:71-79
defaultAddress ==
    [cityCode |-> "", cityName |-> "", streetCode |-> "", streetName |-> "",
     streetNumber |-> JSNumber(1, 0), addressType |-> "Home", comments |-> <<>>]

\* PatientForm.tsx:86-93
defaultValues ==
    [id |-> <<>>, firstName |-> <<>>, lastName |-> <<>>,
     phoneNumbers |-> <<Put(defaultPhoneNumber, "isMain", TRUE)>>,
     hmo |-> "Clalit",
     addresses |-> <<defaultAddress>>]

\* the dependencies of a fetch effect: the debounced query and, for a street
\* combobox, the city code of its row ("" for the city combobox)
Deps(debounced, cityCode) == [debounced |-> debounced, cityCode |-> cityCode]

\* a combobox before any typing, PatientForm.tsx:118-123 and
\* AddressFields.tsx:97-106, with the debounce timer that useDebounce sets at
\* mount for the empty query; seen is the value the effect of useDebounce
\* last ran with and ran the dependencies the fetch effect last ran with (at
\* mount: no query, no city); queued tells that state updates made outside
\* an event handler wait for their render; from and picked are history: the
\* call whose result is listed, and the call whose result the selected
\* street was in
EmptyBox ==
    [query |-> <<>>, debounced |-> <<>>, timer |-> << <<>> >>, seen |-> <<>>,
     items |-> <<>>, loading |-> FALSE, ran |-> Deps(<<>>, ""), queued |-> FALSE,
     from |-> 0, picked |-> 0]

\* a hook whose effect has no cleanup: the earlier timer stays
Restarted_NoCleanup(box, q) ==
    [box EXCEPT !.query = q, !.seen = q, !.timer = Append(@, q)]

\* UseDebounce.ts:16-31: the value changes in an event handler, whose render
\* and effects run before the handler's task ends: the cleanup of the last
\* effect clears its timer and the effect sets a timer for the new value
Restarted(box, q) == [box EXCEPT !.query = q, !.seen = q, !.timer = <<q>>]

\* a form filled in completely and correctly
FilledRecord ==
    [id |-> Str_000000018, firstName |-> <<"D","a","n">>, lastName |-> <<"L","e","v">>,
     phoneNumbers |-> <<[type |-> "Mobile", number |-> Str_050_123_4567,
                         isMain |-> TRUE]>>,
     hmo |-> "Maccabi",
     addresses |-> <<[cityCode |-> "3000", cityName |-> "Jerusalem",
                      streetCode |-> "101", streetName |-> "Yafo",
                      streetNumber |-> JSNumber(7, 0), addressType |-> "Home",
                      comments |-> <<>>]>>]

-----------------------------------------------------------------------------
(* The identifier validator applied to typed input *)

MaxIdEdits == 1

IdChars == Digit \cup {" ", "a"}

IdSeeds ==
    { <<>>,
      <<"0","0","0","0","0","0","0","1","8">>,
      <<"1","2","3","4","5","6","7","8","9">>,
      <<"1","2","3","4","5","6","7","8","2">>,
      <<"0","5","4","3","2","1","9","8">>,
      <<"0","0","0","0","0","0","0","0","1","8">> }

IdInit ==
    /\ idIn \in IdSeeds
    /\ idValid = isValidIsraeliId(idIn)
    /\ idEdits = 0
    /\ phIn = <<>> /\ phValid = FALSE /\ phEdits = 0
    /\ raw = defaultValues /\ result = patientSchema(raw) /\ rawEdits = 0
    /\ values = defaultValues /\ isSubmitting = FALSE /\ posted = <<>>
    /\ timers = <<>> /\ marks = 0 /\ formEdits = 0
    /\ cityBox = EmptyBox /\ streetBox = <<EmptyBox>> /\ calls = <<>> /\ typed = 0
    /\ attempts = <<>> /\ toasts = <<>>

IdReplace(i, c) ==
    /\ idEdits < MaxIdEdits
    /\ i \in 1..Len(idIn)
    /\ c # idIn[i]
    /\ idIn' = [idIn EXCEPT ![i] = c]
    /\ idValid' = isValidIsraeliId(idIn')
    /\ idEdits' = idEdits + 1
    /\ UNCHANGED <<phVars, rawVars, formVars, lookupVars, attempts, toasts>>

IdAppend(c) ==
    /\ idEdits < MaxIdEdits
    /\ idIn' = Append(idIn, c)
    /\ idValid' = isValidIsraeliId(idIn')
    /\ idEdits' = idEdits + 1
    /\ UNCHANGED <<phVars, rawVars, formVars, lookupVars, attempts, toasts>>

IdDeleteLast ==
    /\ idEdits < MaxIdEdits
    /\ idIn # <<>>
    /\ idIn' = SubSeq(idIn, 1, Len(idIn) - 1)
    /\ idValid' = isValidIsraeliId(idIn')
    /\ idEdits' = idEdits + 1
    /\ UNCHANGED <<phVars, rawVars, formVars, lookupVars, attempts, toasts>>

IdNext ==
    \/ \E i \in 1..Len(idIn), c \in IdChars : IdReplace(i, c)
    \/ \E c \in IdChars : IdAppend(c)
    \/ IdDeleteLast

SpecId == IdInit /\ [][IdNext]_vars

-----------------------------------------------------------------------------
(* The phone validator applied to typed input *)

MaxPhoneEdits == 1

PhoneChars == Digit \cup {"-", " ", "("}

PhoneSeeds ==
    { <<>>,
      <<"0","5","0","-","1","2","3","-","4","5","6","7">>,
      <<"0","2","-","1","2","3","4","5","6","7">>,
      <<"1","2","3","4","5","6","7">>,
      <<"0","7","7","1","2","3","4","5","6","7">>,
      <<"0","5","1","2","3","4","5","6","7">> }

PhInit ==
    /\ phIn \in PhoneSeeds
    /\ phValid = isValidIsraeliPhoneNumber(phIn)
    /\ phEdits = 0
    /\ idIn = <<>> /\ idValid = FALSE /\ idEdits = 0
    /\ raw = defaultValues /\ result = patientSchema(raw) /\ rawEdits = 0
    /\ values = defaultValues /\ isSubmitting = FALSE /\ posted = <<>>
    /\ timers = <<>> /\ marks = 0 /\ formEdits = 0
    /\ cityBox = EmptyBox /\ streetBox = <<EmptyBox>> /\ calls = <<>> /\ typed = 0
    /\ attempts = <<>> /\ toasts = <<>>

PhReplace(i, c) ==
    /\ phEdits < MaxPhoneEdits
    /\ i \in 1..Len(phIn)
    /\ c # phIn[i]
    /\ phIn' = [phIn EXCEPT ![i] = c]
    /\ phValid' = isValidIsraeliPhoneNumber(phIn')
    /\ phEdits' = phEdits + 1
    /\ UNCHANGED <<idVars, rawVars, formVars, lookupVars, attempts, toasts>>

PhInsert(i, c) ==
    /\ phEdits < MaxPhoneEdits
    /\ i \in 0..Len(phIn)
    /\ phIn' = SubSeq(phIn, 1, i) \o <<c>> \o SubSeq(phIn, i + 1, Len(phIn))
    /\ phValid' = isValidIsraeliPhoneNumber(phIn')
    /\ phEdits' = phEdits + 1
    /\ UNCHANGED <<idVars, rawVars, formVars, lookupVars, attempts, toasts>>

PhDelete(i) ==
    /\ phEdits < MaxPhoneEdits
    /\ i \in 1..Len(phIn)
    /\ phIn' = SubSeq(phIn, 1, i - 1) \o SubSeq(phIn, i + 1, Len(phIn))
    /\ phValid' = isValidIsraeliPhoneNumber(phIn')
    /\ phEdits' = phEdits + 1
    /\ UNCHANGED <<idVars, rawVars, formVars, lookupVars, attempts, toasts>>

PhNext ==
    \/ \E i \in 1..Len(phIn), c \in PhoneChars : PhReplace(i, c)
    \/ \E i \in 0..Len(phIn), c \in PhoneChars : PhInsert(i, c)
    \/ \E i \in 1..Len(phIn) : PhDelete(i)

SpecPhone == PhInit /\ [][PhNext]_vars

-----------------------------------------------------------------------------
(* patientSchema applied to raw records *)

MaxRawEdits == 2

RawIds == {<<>>, <<"1","2">>, Str_123456789, Str_000000018}

RawNames ==
    {<<>>, <<" ">>, <<"D","a","n">>, <<" ","D","a","n"," ">>, <<" "," ","D">>,
     <<NoBreakSpace>>, <<NoBreakSpace,"D","a","n",LineTabulation>>}

RawHmos == {"Clalit", "Leumit", "Meuhedet"}

RawPhoneTypes == {"Mobile", "Work", "Fax"}

RawPhoneNumbers == {<<>>, Str_1234567, Str_050_123_4567, Str_02_1234567}

RawTexts == {"", "3000"}

RawAddressTypes == {"Home", "Other", "Office"}

\* the zeros of a fraction that an exponent of five digits makes up for
ManyZeros == [i \in 1..10000 |-> "0"]

StreetNumberInputs ==
    { JSNumber(1, 0), JSNumber(12, 0), JSNumber(0, 0), JSNumber(-1, 0), JSNumber(15, 1),
      JSString(<<"5">>), JSString(<<" ","4","2"," ">>), JSString(<<"2",".","5">>),
      JSString(<<"-","3">>), JSString(<<>>), JSString(<<"7","a">>),
      JSString(<<"5",".">>), JSString(<<".","5">>), JSString(<<"+","5">>),
      JSString(<<"1","e","1">>), JSString(<<"1",".","2","5">>),
      JSString(<<"0","x","1","0">>), JSString(<<"-","I","n","f","i","n","i","t","y">>),
      JSString(<<NoBreakSpace,"5">>), JSString(<<ZeroWidthNoBreakSpace>>),
      JSString(<<"1","e","4","0","0">>), JSString(<<"3","e","1","0">>),
      JSString(<<"1","e","1","0","0","0","1">>),
      JSString(<<"0",".","0","0","0","1","5","e","5">>),
      JSString(<<"5",".","0","0","0","0","0","0","0","0","0","0">>) }

\* street numbers written with a fraction of many zeros and an exponent that
\* makes up for them: 1 and 1.5
LongStreetNumberInputs ==
    { JSString(<<"0",".">> \o ManyZeros \o <<"1","e","1","0","0","0","1">>),
      JSString(<<"0",".">> \o ManyZeros \o <<"1","5","e","1","0","0","0","1">>) }

LongComment == [i \in 1..(MAX_COMMENT_LENGTH + 1) |-> "x"]

RawComments == {<<>>, <<"3","r","d">>, LongComment}

RawSeeds ==
    { defaultValues,
      FilledRecord,
      Put(FilledRecord, "phoneNumbers",
          <<[type |-> "Mobile", number |-> Str_050_123_4567, isMain |-> TRUE],
            [type |-> "Home", number |-> Str_02_1234567, isMain |-> FALSE]>>),
      Put(FilledRecord, "middleName", <<"D","a","n">>) }

RawInit ==
    /\ raw \in RawSeeds
    /\ result = patientSchema(raw)
    /\ rawEdits = 0
    /\ idIn = <<>> /\ idValid = FALSE /\ idEdits = 0
    /\ phIn = <<>> /\ phValid = FALSE /\ phEdits = 0
    /\ values = defaultValues /\ isSubmitting = FALSE /\ posted = <<>>
    /\ timers = <<>> /\ marks = 0 /\ formEdits = 0
    /\ cityBox = EmptyBox /\ streetBox = <<EmptyBox>> /\ calls = <<>> /\ typed = 0
    /\ attempts = <<>> /\ toasts = <<>>

\* the record r is validated in place of raw
Validate(r) ==
    /\ rawEdits < MaxRawEdits
    /\ r # raw
    /\ raw' = r
    /\ result' = patientSchema(r)
    /\ rawEdits' = rawEdits + 1
    /\ UNCHANGED <<idVars, phVars, formVars, lookupVars, attempts, toasts>>

\* the record r is validated in place of a seed record, as the only edit
ValidateOnly(r) ==
    /\ rawEdits = 0
    /\ raw' = r
    /\ result' = patientSchema(r)
    /\ rawEdits' = MaxRawEdits
    /\ UNCHANGED <<idVars, phVars, formVars, lookupVars, attempts, toasts>>

SetScalar(key, v) == Validate(Put(raw, key, v))

DropHmo == Validate(Drop(raw, "hmo"))

PutEntry(list, i, key, v) ==
    Put(raw, list, [raw[list] EXCEPT ![i] = Put(raw[list][i], key, v)])

DropEntryKey(list, i, key) ==
    Put(raw, list, [raw[list] EXCEPT ![i] = Drop(raw[list][i], key)])

SetEntry(list, i, key, v) ==
    /\ i \in 1..Len(raw[list])
    /\ Validate(PutEntry(list, i, key, v))

UnsetEntry(list, i, key) ==
    /\ i \in 1..Len(raw[list])
    /\ Has(raw[list][i], key)
    /\ Validate(DropEntryKey(list, i, key))

AppendEntry(list, e) == Validate(Put(raw, list, Append(raw[list], e)))

RemoveEntry(list, i) ==
    /\ i \in 1..Len(raw[list])
    /\ Validate(Put(raw, list, RemoveAt(raw[list], i)))

RawNext ==
    \/ \E v \in RawIds : SetScalar("id", v)
    \/ \E v \in RawNames : SetScalar("firstName", v)
    \/ \E v \in RawNames : SetScalar("lastName", v)
    \/ \E v \in RawHmos : SetScalar("hmo", v)
    \/ DropHmo
    \/ SetScalar("middleName", <<"D","a","n">>)
    \/ \E i \in 1..Len(raw.phoneNumbers), v \in RawTexts :
          SetEntry("phoneNumbers", i, "extension", v)
    \/ \E i \in 1..Len(raw.addresses), v \in RawTexts :
          SetEntry("addresses", i, "floor", v)
    \/ \E b \in BOOLEAN : AppendEntry("phoneNumbers", Put(defaultPhoneNumber, "isMain", b))
    \/ \E i \in 1..Len(raw.phoneNumbers) : RemoveEntry("phoneNumbers", i)
    \/ \E i \in 1..Len(raw.phoneNumbers), v \in RawPhoneTypes :
          SetEntry("phoneNumbers", i, "type", v)
    \/ \E i \in 1..Len(raw.phoneNumbers), v \in RawPhoneNumbers :
          SetEntry("phoneNumbers", i, "number", v)
    \/ \E i \in 1..Len(raw.phoneNumbers), v \in BOOLEAN :
          SetEntry("phoneNumbers", i, "isMain", v)
    \/ \E i \in 1..Len(raw.phoneNumbers), key \in {"type", "isMain"} :
          UnsetEntry("phoneNumbers", i, key)
    \/ AppendEntry("addresses", defaultAddress)
    \/ \E i \in 1..Len(raw.addresses) : RemoveEntry("addresses", i)
    \/ \E i \in 1..Len(raw.addresses), v \in RawTexts,
          key \in {"cityCode", "cityName", "streetCode", "streetName"} :
          SetEntry("addresses", i, key, v)
    \/ \E i \in 1..Len(raw.addresses), v \in StreetNumberInputs :
          SetEntry("addresses", i, "streetNumber", v)
    \/ \E i \in 1..Len(raw.addresses), v \in LongStreetNumberInputs :
          ValidateOnly(PutEntry("addresses", i, "streetNumber", v))
    \/ \E i \in 1..Len(raw.addresses), v \in RawAddressTypes :
          SetEntry("addresses", i, "addressType", v)
    \/ \E i \in 1..Len(raw.addresses), v \in RawComments :
          SetEntry("addresses", i, "comments", v)
    \/ \E i \in 1..Len(raw.addresses),
          key \in {"streetNumber", "addressType", "comments"} :
          UnsetEntry("addresses", i, key)

SpecSchema == RawInit /\ [][RawNext]_vars

-----------------------------------------------------------------------------
(* The lookups of api.ts: fetchCities and fetchStreets.  A call is a record: *)
(* who made it, its arguments, whether a request went out (sent), what the   *)
(* network did with it (net, body) and how the call ended (state, result).   *)

MIN_QUERY_LENGTH == 2

\* a call that sends its request whatever the query
StartFetch_NoGuard(caller, kind, row, query, cityCode, signal) ==
    [caller |-> caller, kind |-> kind, row |-> row, query |-> query,
     q |-> Trim(query), cityCode |-> cityCode, signal |-> signal,
     state |-> "pending", sent |-> TRUE, net |-> "none",
     body |-> [success |-> FALSE], result |-> <<>>]

\* api.ts:83-88 and 154-162: the query is trimmed; a trimmed query shorter
\* than 2 returns [] and fetchStreets without a city code throws, both before
\* any request; otherwise the request goes out with q the trimmed query
StartFetch(caller, kind, row, query, cityCode, signal) ==
    [caller |-> caller, kind |-> kind, row |-> row, query |-> query,
     q |-> Trim(query), cityCode |-> cityCode, signal |-> signal,
     state |-> IF Len(Trim(query)) < 2 THEN "returned"
               ELSE IF kind = "street" /\ cityCode = "" THEN "threw"
               ELSE "pending",
     sent |-> Len(Trim(query)) >= 2 /\ ~(kind = "street" /\ cityCode = ""),
     net |-> "none", body |-> [success |-> FALSE], result |-> <<>>]

\* the record a Map keyed by code holds for a code: the last one set
LastWith(records, code) ==
    records[CHOOSE i \in 1..Len(records) :
                /\ records[i].code = code
                /\ \A j \in (i + 1)..Len(records) : records[j].code # code]

\* the response records as they are, duplicates included
UniqueFrom_KeepAll(records, i) ==
    IF i > Len(records) THEN <<>> ELSE SubSeq(records, i, Len(records))

\* api.ts:106-113 and 183-190: Array.from(new Map(records.map(r => [code, r]))
\* .values()): one record per code, in the order the codes first appear, each
\* the last record of its code
RECURSIVE UniqueFrom(_, _)
UniqueFrom(records, i) ==
    IF i > Len(records) THEN <<>>
    ELSE (IF \A j \in 1..(i - 1) : records[j].code # records[i].code
          THEN <<LastWith(records, records[i].code)>>
          ELSE <<>>)
         \o UniqueFrom(records, i + 1)

\* a lookup that fails when its request is cancelled
Settle_CancelThrows(call, net, body) ==
    [call EXCEPT !.net = net, !.body = body,
                 !.state = IF net = "answered" /\ body.success /\ Has(body, "records")
                           THEN "returned" ELSE "threw",
                 !.result = IF net = "answered" /\ body.success /\ Has(body, "records")
                            THEN UniqueFrom(body.records, 1) ELSE <<>>]

\* api.ts:104-138 and 181-214: how a call whose request is out ends.  A
\* cancelled request returns []; a response with success and records returns
\* the unique records; any other response and any other failure throws.
Settle(call, net, body) ==
    [call EXCEPT !.net = net, !.body = body,
                 !.state = IF net = "cancelled" THEN "returned"
                           ELSE IF net = "answered" /\ body.success /\ Has(body, "records")
                           THEN "returned" ELSE "threw",
                 !.result = IF net = "answered" /\ body.success /\ Has(body, "records")
                            THEN UniqueFrom(body.records, 1) ELSE <<>>]

-----------------------------------------------------------------------------
(* The form, PatientForm.tsx: the record held by react-hook-form, the       *)
(* handlers that change it and the submit path.  formState.errors is not    *)
(* kept: handleSubmit validates the values afresh.                          *)

MaxFormEdits == 6

MaxSubmits == 1

MaxCalls == 3

MaxLookups == 2

MaxTyped == 3

MaxQueries == 2

MaxPicks == 3

\* what the user can type or pick in the form's controls
FormIds == {Str_000000018, Str_123456789}

FormNames == {<<" ","D","a","n"," ">>}

FormPhoneNumbers == {Str_050_123_4567, Str_1234567}

FormHmos == {"Maccabi"}

FormPhoneTypes == {"Work"}

FormAddressTypes == {"Other"}

\* Number(event.target.value) of the number input
FormStreetNumbers == {JSNumber(7, 0), JSNumber(0, 0)}

\* what the webhook may answer: a body with a status, or no answer at all
Responses == {"success", "error", "none"}

FormInit ==
    /\ values = defaultValues
    /\ isSubmitting = FALSE
    /\ posted = <<>>
    /\ timers = <<>> /\ marks = 0
    /\ formEdits = 0
    /\ cityBox = EmptyBox /\ streetBox = <<EmptyBox>> /\ calls = <<>> /\ typed = 0
    /\ attempts = <<>> /\ toasts = <<>>
    /\ idIn = <<>> /\ idValid = FALSE /\ idEdits = 0
    /\ phIn = <<>> /\ phValid = FALSE /\ phEdits = 0
    /\ raw = defaultValues /\ result = patientSchema(raw) /\ rawEdits = 0

\* a handler leaves the form holding the record v
Edit(v) ==
    /\ formEdits < MaxFormEdits
    /\ values' = v
    /\ formEdits' = formEdits + 1
    /\ UNCHANGED <<isSubmitting, posted, marks, idVars, phVars, rawVars>>
    /\ UNCHANGED <<cityBox, typed, attempts, toasts>>

\* the fetch effect of a street combobox, AddressFields.tsx:109-145, on the
\* box: with a city and a debounced query of 2 characters or more after
\* trimming it sets the loading flag and clears the list, otherwise it clears
\* the list
StreetEffectBox(box, cityCode) ==
    IF cityCode # "" /\ Len(Trim(box.debounced)) >= MIN_QUERY_LENGTH
    THEN [box EXCEPT !.loading = TRUE, !.items = <<>>, !.from = 0,
                     !.ran = Deps(box.debounced, cityCode)]
    ELSE [box EXCEPT !.items = <<>>, !.from = 0,
                     !.ran = Deps(box.debounced, cityCode)]

\* the same effect on the calls: fetchStreets(debouncedStreetQuery, cityCode),
\* without a signal (lines 120-123)
StreetEffectCalls(box, cityCode, row, cs) ==
    IF cityCode # "" /\ Len(Trim(box.debounced)) >= MIN_QUERY_LENGTH
    THEN Append(cs, StartFetch("form", "street", row, box.debounced, cityCode, FALSE))
    ELSE cs

\* AddressFields.tsx:145: the effect runs after a render in which the
\* debounced query or the city code is not what it last ran with
StreetEffectDue(box, cityCode) == box.ran # Deps(box.debounced, cityCode)

\* the render that follows a handler of the row: React runs the effects of a
\* render caused by a click or a key press before the handler's task ends
StreetFlushedBox(box, cityCode) ==
    IF StreetEffectDue(box, cityCode) THEN StreetEffectBox(box, cityCode) ELSE box

StreetFlushedCalls(box, cityCode, row, cs) ==
    IF StreetEffectDue(box, cityCode) THEN StreetEffectCalls(box, cityCode, row, cs)
    ELSE cs

\* setStreetQuery(""), AddressFields.tsx:297 and 424-426: a changed query
\* restarts the debounce timer
ClearQuery(box) ==
    IF box.query # <<>> THEN Restarted(box, <<>>) ELSE box

\* a row's component is unmounted: what its calls return reaches no one
Unmounted(cs, row) ==
    [i \in 1..Len(cs) |->
        IF cs[i].caller = "form" /\ cs[i].kind = "street" /\ cs[i].row = row
        THEN [cs[i] EXCEPT !.row = 0] ELSE cs[i]]

\* the rows after a removed row move up by one
MovedUp(cs, row) ==
    [i \in 1..Len(cs) |->
        IF cs[i].caller = "form" /\ cs[i].kind = "street" /\ cs[i].row > row
        THEN [cs[i] EXCEPT !.row = @ - 1] ELSE cs[i]]

\* the street effect runs again in every row whose index changed (index is a
\* dependency, AddressFields.tsx:145): the boxes of rows from..
ReindexedBoxes(boxes, addresses, from) ==
    [r \in 1..Len(boxes) |->
        IF r >= from THEN StreetEffectBox(boxes[r], addresses[r].cityCode)
        ELSE boxes[r]]

\* and the calls these runs make
RECURSIVE ReindexedCalls(_, _, _, _)
ReindexedCalls(boxes, addresses, from, cs) ==
    IF from > Len(boxes) THEN cs
    ELSE ReindexedCalls(boxes, addresses, from + 1,
                        StreetEffectCalls(boxes[from], addresses[from].cityCode, from, cs))

\* field.onChange of the inputs and selects bound to a scalar field
ChangeField(key, v) == Edit(Put(values, key, v)) /\ UNCHANGED <<timers, streetBox, calls>>

SetValue(rec, list, i, key, v) ==
    Put(rec, list, [rec[list] EXCEPT ![i] = Put(rec[list][i], key, v)])

\* field.onChange of a control of row i of a field array
ChangeRowField(list, i, key, v) ==
    /\ i \in 1..Len(values[list])
    /\ Edit(SetValue(values, list, i, key, v))
    /\ UNCHANGED <<timers, streetBox, calls>>

\* AddressFields.tsx:467-473: "" gives undefined, anything else its Number
ClearStreetNumber(i) ==
    /\ i \in 1..Len(values.addresses)
    /\ Edit(Put(values, "addresses",
                [values.addresses EXCEPT ![i] = Drop(@, "streetNumber")]))
    /\ UNCHANGED <<timers, streetBox, calls>>

\* PatientForm.tsx:171-175
addPhoneRow ==
    /\ Edit(Put(values, "phoneNumbers",
                Append(values.phoneNumbers,
                       Put(defaultPhoneNumber, "isMain", Len(values.phoneNumbers) = 0))))
    /\ UNCHANGED <<timers, streetBox, calls>>

\* PatientForm.tsx:177-204: the row is removed at once, the fix-up is deferred
\* with setTimeout and remembers whether the removed row was main
removePhoneRow(index) ==
    /\ index \in 1..Len(values.phoneNumbers)
    /\ Edit(Put(values, "phoneNumbers", RemoveAt(values.phoneNumbers, index)))
    /\ timers' = Append(timers, values.phoneNumbers[index].isMain)
    /\ UNCHANGED <<streetBox, calls>>

\* a deferred step that does not ask whether the removed row was main
NeedsMain_AnyRemoval(rec, isRemovingMain) ==
    /\ Len(rec.phoneNumbers) > 0
    /\ \A i \in 1..Len(rec.phoneNumbers) : ~rec.phoneNumbers[i].isMain

\* PatientForm.tsx:188-193: the removed row was main, rows remain and none
\* of them is main
NeedsMain(rec, isRemovingMain) ==
    /\ isRemovingMain
    /\ Len(rec.phoneNumbers) > 0
    /\ \A i \in 1..Len(rec.phoneNumbers) : ~rec.phoneNumbers[i].isMain

\* PatientForm.tsx:185-203: the deferred part of removePhoneRow, reading the
\* values anew; it marks the first row when a main one is needed
RemovePhoneFixUp ==
    /\ timers # <<>>
    /\ timers' = Tail(timers)
    /\ values' = IF NeedsMain(values, Head(timers))
                 THEN SetValue(values, "phoneNumbers", 1, "isMain", TRUE)
                 ELSE values
    /\ marks' = IF NeedsMain(values, Head(timers)) THEN marks + 1 ELSE marks
    /\ UNCHANGED <<isSubmitting, posted, formEdits, idVars, phVars, rawVars>>
    /\ UNCHANGED <<lookupVars, attempts, toasts>>

\* a handler that leaves the other rows as they are
handleMainPhoneChange_KeepOthers(rec, selectedIndex) ==
    SetValue(rec, "phoneNumbers", selectedIndex, "isMain", TRUE)

\* PatientForm.tsx:207-224
handleMainPhoneChange(rec, selectedIndex) ==
    Put(rec, "phoneNumbers",
        [i \in 1..Len(rec.phoneNumbers) |->
            Put(rec.phoneNumbers[i], "isMain", i = selectedIndex)])

\* PhoneFields.tsx:113-118: onCheckedChange of the main checkbox of row index
CheckMain(index, checked) ==
    /\ index \in 1..Len(values.phoneNumbers)
    /\ checked # values.phoneNumbers[index].isMain
    /\ Edit(IF checked
            THEN handleMainPhoneChange(
                    SetValue(values, "phoneNumbers", index, "isMain", checked), index)
            ELSE SetValue(values, "phoneNumbers", index, "isMain", checked))
    /\ UNCHANGED <<timers, streetBox, calls>>

\* PatientForm.tsx:168; the new row mounts its own street combobox
addAddressRow ==
    /\ Edit(Put(values, "addresses", Append(values.addresses, defaultAddress)))
    /\ streetBox' = Append(streetBox, EmptyBox)
    /\ UNCHANGED <<timers, calls>>

\* PatientForm.tsx:169; the row's street combobox is unmounted and the rows
\* after it get a new index
removeAddressRow(index) ==
    /\ index \in 1..Len(values.addresses)
    /\ Edit(Put(values, "addresses", RemoveAt(values.addresses, index)))
    /\ streetBox' = ReindexedBoxes(RemoveAt(streetBox, index),
                                   RemoveAt(values.addresses, index), index)
    /\ calls' = ReindexedCalls(RemoveAt(streetBox, index),
                               RemoveAt(values.addresses, index), index,
                               MovedUp(Unmounted(calls, index), index))
    /\ Len(calls') <= MaxCalls
    /\ UNCHANGED timers

\* a handler that leaves the row's street as it is
CitySelected_KeepStreet(address, city) ==
    [k \in DOMAIN address \cup {"streetNumber"} |->
        CASE k = "cityCode" -> city.code
          [] k = "cityName" -> city.name
          [] k = "streetNumber" -> JSNumber(1, 0)
          [] OTHER -> address[k]]

\* AddressFields.tsx:268-296: the five setValue calls of the city onSelect
\* on the row
CitySelected(address, city) ==
    [k \in DOMAIN address \cup {"streetNumber"} |->
        CASE k = "cityCode" -> city.code
          [] k = "cityName" -> city.name
          [] k = "streetCode" -> ""
          [] k = "streetName" -> ""
          [] k = "streetNumber" -> JSNumber(1, 0)
          [] OTHER -> address[k]]

\* AddressFields.tsx:251-253 and 385-388: the items of a combobox are
\* rendered while it is not loading, one for each candidate of its list
Listed(box, item) ==
    ~box.loading /\ \E k \in 1..Len(box.items) : box.items[k] = item

\* AddressFields.tsx:260-303: onSelect of a city of the candidate list: the
\* row's city is set, its street and street number are reset, the street
\* query and list are cleared (lines 297-298); in the render that follows,
\* the street effect runs when the city code or the debounced query is not
\* what it last ran with, with the debounced query the box still holds
SelectCity(index, city) ==
    /\ index \in 1..Len(values.addresses)
    /\ Listed(cityBox, city)
    /\ Edit(Put(values, "addresses",
                [values.addresses EXCEPT ![index] = CitySelected(@, city)]))
    /\ streetBox' =
         [streetBox EXCEPT ![index] =
            StreetFlushedBox([ClearQuery(@) EXCEPT !.items = <<>>, !.from = 0],
                             city.code)]
    /\ calls' = StreetFlushedCalls(streetBox[index], city.code, index, calls)
    /\ Len(calls') <= MaxCalls
    /\ UNCHANGED timers

\* AddressFields.tsx:398-428: onSelect of a street of the candidate list; the
\* street controls are disabled while the row has no city
SelectStreet(index, street) ==
    /\ index \in 1..Len(values.addresses)
    /\ values.addresses[index].cityCode # ""
    /\ Listed(streetBox[index], street)
    /\ Edit(Put(values, "addresses",
                [values.addresses EXCEPT ![index] =
                    [@ EXCEPT !.streetCode = street.code, !.streetName = street.name]]))
    /\ streetBox' = [streetBox EXCEPT ![index] =
                        [ClearQuery(streetBox[index]) EXCEPT !.picked = streetBox[index].from]]
    /\ UNCHANGED <<timers, calls>>

\* api.ts:246: the response carries status "success"
IsSuccessResponse(response) == response = "success"

\* PatientForm.tsx:229: toast.loading("Submitting...")
SubmittingToast == [kind |-> "loading", title |-> "Submitting..."]

\* PatientForm.tsx:236-239 and 255-258: the toast that takes the place of the
\* loading toast (same id) when postPatientData has returned or thrown
SubmissionToast(succeeded) ==
    IF succeeded THEN [kind |-> "success", title |-> "Success!"]
    ELSE [kind |-> "error", title |-> "Submission Error"]

Replaced(ts, toast) ==
    [i \in 1..Len(ts) |-> IF ts[i] = SubmittingToast THEN toast ELSE ts[i]]

\* the record is handed over without being validated
HandleSubmit_Unvalidated ==
    /\ ~isSubmitting
    /\ Len(posted) < MaxSubmits
    /\ posted' = Append(posted, values)
    /\ isSubmitting' = TRUE
    /\ toasts' = Append(toasts, SubmittingToast)
    /\ UNCHANGED <<values, timers, marks, formEdits, idVars, phVars, rawVars>>
    /\ UNCHANGED <<lookupVars, attempts>>

\* PatientForm.tsx:270 with the resolver of lines 82-95: handleSubmit validates
\* the values with patientSchema and calls onSubmit, which hands the parsed
\* record to postPatientData (line 233), only when there is no error
HandleSubmit ==
    /\ ~isSubmitting
    /\ Len(posted) < MaxSubmits
    /\ IF patientSchema(values).success
       THEN /\ posted' = Append(posted, patientSchema(values).data)
            /\ isSubmitting' = TRUE
            /\ toasts' = Append(toasts, SubmittingToast)
       ELSE UNCHANGED <<posted, isSubmitting, toasts>>
    /\ UNCHANGED <<values, timers, marks, formEdits, idVars, phVars, rawVars>>
    /\ UNCHANGED <<lookupVars, attempts>>

\* a form that is reset whatever postPatientData did
PostSettles_AlwaysReset(response) ==
    /\ isSubmitting
    /\ isSubmitting' = FALSE
    /\ values' = defaultValues
    /\ cityBox' = [cityBox EXCEPT !.queued = TRUE]
    /\ toasts' = Replaced(toasts, SubmissionToast(IsSuccessResponse(response)))
    /\ UNCHANGED <<posted, timers, marks, formEdits, idVars, phVars, rawVars>>
    /\ UNCHANGED <<streetBox, calls, typed, attempts>>

\* PatientForm.tsx:233-261: the continuation of onSubmit after the await.
\* postPatientData returned: the success toast, form.reset() to the default
\* values, setCityQuery(""), setCities([]) and setCityLoading(false) (lines
\* 236-246); these updates are made outside an event handler and wait for
\* their render.  Or it threw, and only the error toast is shown.
PostSettles(response) ==
    /\ isSubmitting
    /\ isSubmitting' = FALSE
    /\ values' = IF IsSuccessResponse(response) THEN defaultValues ELSE values
    /\ cityBox' = IF IsSuccessResponse(response)
                  THEN [cityBox EXCEPT !.query = <<>>, !.items = <<>>, !.from = 0,
                                       !.loading = FALSE, !.queued = TRUE]
                  ELSE cityBox
    /\ toasts' = Replaced(toasts, SubmissionToast(IsSuccessResponse(response)))
    /\ UNCHANGED <<posted, timers, marks, formEdits, idVars, phVars, rawVars>>
    /\ UNCHANGED <<streetBox, calls, typed, attempts>>

\* the render of the updates that PostSettles queued: the effect of
\* useDebounce runs again when the city query is not the one it last ran
\* with (UseDebounce.ts:16-31), and the rows of the reset form are mounted
\* anew, so that what the street calls of the old rows return reaches no one
PostRender ==
    /\ cityBox.queued
    /\ cityBox' = [(IF cityBox.query # cityBox.seen
                    THEN Restarted(cityBox, cityBox.query) ELSE cityBox)
                   EXCEPT !.queued = FALSE]
    /\ streetBox' = <<EmptyBox>>
    /\ calls' = [i \in 1..Len(calls) |->
                    IF calls[i].caller = "form" /\ calls[i].kind = "street"
                    THEN [calls[i] EXCEPT !.row = 0] ELSE calls[i]]
    /\ UNCHANGED <<formVars, typed, idVars, phVars, rawVars, attempts, toasts>>

-----------------------------------------------------------------------------
(* The lookups as the form makes them (PatientForm.tsx:117-166,              *)
(* AddressFields.tsx:96-150, UseDebounce.ts) and as any caller of api.ts may *)
(* make them, with or without an AbortSignal.                                *)

\* what the user may type in a search box
Queries ==
    {<<>>, <<"a">>, <<" ","a"," ">>, <<NoBreakSpace,"a",NoBreakSpace>>, <<"t","e">>,
     <<"t","e","l">>}

Jerusalem == [code |-> "3000", name |-> "Jerusalem"]

Yerushalayim == [code |-> "3000", name |-> "Yerushalayim"]

TelAviv == [code |-> "5000", name |-> "Tel Aviv"]

\* the records a response may carry
RecordLists == {<<TelAviv>>, <<Jerusalem, TelAviv, Yerushalayim>>}

\* response.data of the lookup service: success with records, success
\* without records, or no success
Bodies ==
    {[success |-> TRUE, records |-> l] : l \in RecordLists}
    \cup {[success |-> TRUE], [success |-> FALSE]}

\* the arguments of the direct calls
DirectQueries == {<<>>, <<"a">>, <<NoBreakSpace,"a",NoBreakSpace>>, <<"t","e">>}

CityCodes == {"", "3000"}

\* the functions are called directly on a page whose form is left alone
FormUntouched ==
    /\ typed = 0
    /\ formEdits = 0
    /\ \A i \in 1..Len(calls) : calls[i].caller = "direct" /\ calls[i].state # "pending"

FormOnly == \A i \in 1..Len(calls) : calls[i].caller = "form"

LookupInit ==
    /\ values = defaultValues
    /\ isSubmitting = FALSE
    /\ posted = <<>>
    /\ timers = <<>> /\ marks = 0
    /\ formEdits = 0
    /\ cityBox = EmptyBox /\ streetBox = <<EmptyBox>> /\ calls = <<>> /\ typed = 0
    /\ attempts = <<>> /\ toasts = <<>>
    /\ idIn = <<>> /\ idValid = FALSE /\ idEdits = 0
    /\ phIn = <<>> /\ phValid = FALSE /\ phEdits = 0
    /\ raw = defaultValues /\ result = patientSchema(raw) /\ rawEdits = 0

\* the fetch effect of the city combobox, PatientForm.tsx:126-154, on the box
CityEffectBox(box) ==
    IF Len(Trim(box.debounced)) >= MIN_QUERY_LENGTH
    THEN [box EXCEPT !.loading = TRUE, !.items = <<>>, !.from = 0,
                     !.ran = Deps(box.debounced, "")]
    ELSE [box EXCEPT !.items = <<>>, !.from = 0, !.ran = Deps(box.debounced, "")]

\* the same effect on the calls: fetchCities(debouncedCityQuery), line 135,
\* without a signal
CityEffectCalls(box, cs) ==
    IF Len(Trim(box.debounced)) >= MIN_QUERY_LENGTH
    THEN Append(cs, StartFetch("form", "city", 0, box.debounced, "", FALSE))
    ELSE cs

\* UseDebounce.ts:19-21: the oldest pending timer fires and the debounced
\* value becomes the value the timer was set for
Debounced(box) == [box EXCEPT !.debounced = Head(box.timer), !.timer = Tail(@)]

\* PatientForm.tsx:157-159 with UseDebounce.ts:16-29: the query changes and
\* the debounce timer starts again
handleCityInputChange(q) ==
    /\ typed < MaxTyped
    /\ FormOnly
    /\ q # cityBox.query
    /\ cityBox' = Restarted(cityBox, q)
    /\ typed' = typed + 1
    /\ UNCHANGED <<streetBox, calls, formVars, idVars, phVars, rawVars, attempts, toasts>>

\* UseDebounce.ts:19-21: the timer callback of the city combobox runs
CityDebounce ==
    /\ cityBox.timer # <<>>
    /\ cityBox' = Debounced(cityBox)
    /\ UNCHANGED <<streetBox, calls, typed, formVars, idVars, phVars, rawVars>>
    /\ UNCHANGED <<attempts, toasts>>

\* PatientForm.tsx:126-154: the fetch effect of the city combobox runs, after
\* a render in which the debounced query is not the one it last ran with
\* (line 154)
CityEffect ==
    /\ cityBox.ran # Deps(cityBox.debounced, "")
    /\ cityBox' = CityEffectBox(cityBox)
    /\ calls' = CityEffectCalls(cityBox, calls)
    /\ Len(calls') <= MaxCalls
    /\ UNCHANGED <<streetBox, typed, formVars, idVars, phVars, rawVars, attempts, toasts>>

\* AddressFields.tsx:148-150; the street input is disabled without a city
handleStreetInputChange(row, q) ==
    /\ typed < MaxTyped
    /\ FormOnly
    /\ row \in 1..Len(streetBox)
    /\ values.addresses[row].cityCode # ""
    /\ q # streetBox[row].query
    /\ streetBox' = [streetBox EXCEPT ![row] = Restarted(@, q)]
    /\ typed' = typed + 1
    /\ UNCHANGED <<cityBox, calls, formVars, idVars, phVars, rawVars, attempts, toasts>>

\* UseDebounce.ts:19-21: the timer callback of a row's street combobox runs
StreetDebounce(row) ==
    /\ row \in 1..Len(streetBox)
    /\ streetBox[row].timer # <<>>
    /\ streetBox' = [streetBox EXCEPT ![row] = Debounced(@)]
    /\ UNCHANGED <<cityBox, calls, typed, formVars, idVars, phVars, rawVars>>
    /\ UNCHANGED <<attempts, toasts>>

\* AddressFields.tsx:109-145: the fetch effect of a row's street combobox
\* runs, after a render in which its dependencies have changed
StreetEffect(row) ==
    /\ row \in 1..Len(streetBox)
    /\ StreetEffectDue(streetBox[row], values.addresses[row].cityCode)
    /\ streetBox' = [streetBox EXCEPT ![row] =
                        StreetEffectBox(@, values.addresses[row].cityCode)]
    /\ calls' = StreetEffectCalls(streetBox[row], values.addresses[row].cityCode,
                                  row, calls)
    /\ Len(calls') <= MaxCalls
    /\ UNCHANGED <<cityBox, typed, formVars, idVars, phVars, rawVars, attempts, toasts>>

\* any caller calls fetchCities(query, signal?)
CallFetchCities(query, signal) ==
    /\ Len(calls) < MaxLookups
    /\ FormUntouched
    /\ calls' = Append(calls, StartFetch("direct", "city", 0, query, "", signal))
    /\ UNCHANGED <<cityBox, streetBox, typed, formVars, idVars, phVars, rawVars, attempts, toasts>>

\* any caller calls fetchStreets(query, cityCode, signal?)
CallFetchStreets(query, cityCode, signal) ==
    /\ Len(calls) < MaxLookups
    /\ FormUntouched
    /\ calls' = Append(calls, StartFetch("direct", "street", 0, query, cityCode, signal))
    /\ UNCHANGED <<cityBox, streetBox, typed, formVars, idVars, phVars, rawVars, attempts, toasts>>

\* an effect whose catch block leaves the list alone
Delivered_KeepOnError(box, call, i) ==
    IF call.state = "returned"
    THEN [box EXCEPT !.items = call.result, !.from = i, !.loading = FALSE]
    ELSE [box EXCEPT !.loading = FALSE]

\* PatientForm.tsx:136-148 and AddressFields.tsx:124-139: what the awaiting
\* effect does with the ended call: the list is the result, or empty when the
\* call threw, and the loading flag goes down
Delivered(box, call, i) ==
    [box EXCEPT !.items = call.result,
                !.from = IF call.state = "returned" THEN i ELSE 0,
                !.loading = FALSE]

\* PatientForm.tsx:141-146 and AddressFields.tsx:130-135: toast.error of the
\* effect whose call threw
LookupToast(kind) ==
    [kind |-> "error",
     title |-> IF kind = "city" THEN "Error Fetching Cities" ELSE "Error Fetching Streets"]

\* call i ends and the effect that awaits it, if any, goes on
Finish(i, net, body) ==
    /\ i \in 1..Len(calls)
    /\ calls[i].state = "pending"
    /\ calls' = [calls EXCEPT ![i] = Settle(@, net, body)]
    /\ cityBox' = IF calls[i].caller = "form" /\ calls[i].kind = "city"
                  THEN Delivered(cityBox, calls'[i], i)
                  ELSE cityBox
    /\ streetBox' = IF /\ calls[i].caller = "form"
                       /\ calls[i].kind = "street"
                       /\ calls[i].row \in 1..Len(streetBox)
                    THEN [streetBox EXCEPT ![calls[i].row] = Delivered(@, calls'[i], i)]
                    ELSE streetBox
    /\ toasts' = IF calls[i].caller = "form" /\ calls'[i].state = "threw"
                 THEN Append(toasts, LookupToast(calls[i].kind))
                 ELSE toasts
    /\ UNCHANGED <<typed, formVars, idVars, phVars, rawVars, attempts>>

\* the service answers the request of call i
Answer(i, body) == Finish(i, "answered", body)

\* the request of call i fails: no connection, a timeout, an error status
RequestFails(i) == Finish(i, "error", [success |-> FALSE])

\* the caller aborts the signal it gave to call i
Abort(i) ==
    /\ i \in 1..Len(calls)
    /\ calls[i].signal
    /\ Finish(i, "cancelled", [success |-> FALSE])

\* what the user types in the search boxes of the form, and what the lookup
\* service answers to a call for cities and for streets
FormQueries == {<<"t","e">>}

\* what the user types in the city box while a submission is under way
LaterQuery == <<"t","e","l">>

FormComments == {<<"3","r","d">>}

Yafo == [code |-> "101", name |-> "Yafo"]

FormAnswer(kind) ==
    [success |-> TRUE, records |-> IF kind = "city" THEN <<Jerusalem>> ELSE <<Yafo>>]

\* the controls of the form that work without a lookup, and the deferred step
\* of removePhoneRow
Next ==
    \/ \E v \in FormIds : ChangeField("id", v)
    \/ \E v \in FormNames : ChangeField("firstName", v)
    \/ \E v \in FormNames : ChangeField("lastName", v)
    \/ \E v \in FormHmos : ChangeField("hmo", v)
    \/ \E i \in 1..Len(values.phoneNumbers), v \in FormPhoneTypes :
          ChangeRowField("phoneNumbers", i, "type", v)
    \/ \E i \in 1..Len(values.phoneNumbers), v \in FormPhoneNumbers :
          ChangeRowField("phoneNumbers", i, "number", v)
    \/ \E i \in 1..Len(values.phoneNumbers), checked \in BOOLEAN : CheckMain(i, checked)
    \/ addPhoneRow
    \/ \E i \in 1..Len(values.phoneNumbers) : removePhoneRow(i)
    \/ RemovePhoneFixUp
    \/ addAddressRow
    \/ \E i \in 1..Len(values.addresses) : removeAddressRow(i)
    \/ \E i \in 1..Len(values.addresses), v \in FormAddressTypes :
          ChangeRowField("addresses", i, "addressType", v)
    \/ \E i \in 1..Len(values.addresses), v \in FormStreetNumbers :
          ChangeRowField("addresses", i, "streetNumber", v)
    \/ \E i \in 1..Len(values.addresses) : ClearStreetNumber(i)
    \/ \E i \in 1..Len(values.addresses), v \in FormComments :
          ChangeRowField("addresses", i, "comments", v)

Spec == FormInit /\ [][Next]_vars

\* the way to a submission: the controls a valid record needs (identifier,
\* names, phone number, city and street through their lookups), the ones
\* that take a phone or an address away or leave no main phone, and the
\* submission.  While the updates of a settled submission wait for their
\* render, what runs is what needs no event of the user and no render: the
\* timer callbacks and the answers of the requests; the user's events and
\* the effects come after the render.
SubmitNext ==
    \/ /\ ~cityBox.queued
       /\ \/ \E v \in FormIds : ChangeField("id", v)
          \/ \E v \in FormNames : ChangeField("firstName", v)
          \/ \E v \in FormNames : ChangeField("lastName", v)
          \/ \E i \in 1..Len(values.phoneNumbers), v \in FormPhoneNumbers :
                ChangeRowField("phoneNumbers", i, "number", v)
          \/ \E i \in 1..Len(values.phoneNumbers) : CheckMain(i, FALSE)
          \/ \E i \in 1..Len(values.phoneNumbers) : removePhoneRow(i)
          \/ \E i \in 1..Len(values.addresses) : removeAddressRow(i)
          \/ \E i \in 1..Len(values.addresses) :
                \E k \in 1..Len(cityBox.items) : SelectCity(i, cityBox.items[k])
          \/ \E i \in 1..Len(values.addresses) :
                \E k \in 1..Len(streetBox[i].items) :
                   SelectStreet(i, streetBox[i].items[k])
          \/ \E i \in 1..Len(values.addresses), v \in FormStreetNumbers :
                ChangeRowField("addresses", i, "streetNumber", v)
          \/ \E i \in 1..Len(values.addresses) : ClearStreetNumber(i)
          \/ \E i \in 1..Len(values.addresses), v \in FormComments :
                ChangeRowField("addresses", i, "comments", v)
          \/ \E q \in FormQueries : handleCityInputChange(q)
          \/ isSubmitting /\ handleCityInputChange(LaterQuery)
          \/ \E row \in 1..Len(streetBox), q \in FormQueries :
                handleStreetInputChange(row, q)
          \/ CityEffect
          \/ \E row \in 1..Len(streetBox) : StreetEffect(row)
          \/ HandleSubmit
    \/ RemovePhoneFixUp
    \/ CityDebounce
    \/ \E row \in 1..Len(streetBox) : StreetDebounce(row)
    \/ \E i \in 1..Len(calls) : Answer(i, FormAnswer(calls[i].kind))
    \/ \E response \in Responses : PostSettles(response)
    \/ PostRender

SpecSubmit == FormInit /\ [][SubmitNext]_vars

\* the phone list on its own: rows are added, removed and checked as main,
\* and the deferred steps of the removals run
PhonesNext ==
    \/ addPhoneRow
    \/ \E i \in 1..Len(values.phoneNumbers) : removePhoneRow(i)
    \/ \E i \in 1..Len(values.phoneNumbers) : CheckMain(i, TRUE)
    \/ RemovePhoneFixUp

SpecPhones == FormInit /\ [][PhonesNext]_vars

LookupNext ==
    \/ \E q \in Queries : typed < MaxQueries /\ handleCityInputChange(q)
    \/ CityDebounce
    \/ CityEffect /\ Len(calls') <= MaxLookups
    \/ \E row \in 1..Len(streetBox), q \in Queries :
          typed < MaxQueries /\ handleStreetInputChange(row, q)
    \/ \E row \in 1..Len(streetBox) : StreetDebounce(row)
    \/ \E row \in 1..Len(streetBox) : StreetEffect(row) /\ Len(calls') <= MaxLookups
    \/ \E i \in 1..Len(values.addresses) :
          \E k \in 1..Len(cityBox.items) :
             FormOnly /\ SelectCity(i, cityBox.items[k]) /\ Len(calls') <= MaxLookups
    \/ \E q \in DirectQueries, signal \in BOOLEAN : CallFetchCities(q, signal)
    \/ \E q \in DirectQueries, c \in CityCodes, signal \in BOOLEAN :
          CallFetchStreets(q, c, signal)
    \/ \E i \in 1..Len(calls), body \in Bodies : Answer(i, body)
    \/ \E i \in 1..Len(calls) : RequestFails(i)
    \/ \E i \in 1..Len(calls) : Abort(i)

SpecLookup == LookupInit /\ [][LookupNext]_vars

\* the comboboxes of the rows on their own: a city query is typed and
\* answered, cities are picked, street queries typed, the lookups answered
\* and listed streets picked
StreetsNext ==
    \/ \E q \in FormQueries : typed < MaxQueries /\ handleCityInputChange(q)
    \/ CityDebounce
    \/ CityEffect
    \/ \E i \in 1..Len(values.addresses) :
          \E k \in 1..Len(cityBox.items) :
             formEdits < MaxPicks /\ SelectCity(i, cityBox.items[k])
    \/ \E row \in 1..Len(streetBox), q \in Queries :
          typed < MaxQueries /\ handleStreetInputChange(row, q)
    \/ \E row \in 1..Len(streetBox) : StreetDebounce(row)
    \/ \E row \in 1..Len(streetBox) : StreetEffect(row)
    \/ \E row \in 1..Len(streetBox) :
          \E k \in 1..Len(streetBox[row].items) :
             formEdits < MaxPicks /\ SelectStreet(row, streetBox[row].items[k])
    \/ \E i \in 1..Len(calls), body \in Bodies : Answer(i, body)
    \/ \E i \in 1..Len(calls) : RequestFails(i)

SpecStreets == LookupInit /\ [][StreetsNext]_vars

\* what the lookup service answers in the rows below: two cities, one street
AddressAnswer(kind) ==
    [success |-> TRUE,
     records |-> IF kind = "city" THEN <<Jerusalem, TelAviv>> ELSE <<Yafo>>]

\* the address rows: rows are added, a city query typed and answered, cities
\* picked in the rows, a street number and the health fund changed, one
\* street query typed and answered, listed streets picked
AddressesNext ==
    \/ formEdits < MaxPicks /\ addAddressRow
    \/ \E q \in FormQueries : handleCityInputChange(q)
    \/ CityDebounce
    \/ CityEffect
    \/ \E i \in 1..Len(values.addresses) :
          \E k \in 1..Len(cityBox.items) :
             formEdits < MaxPicks /\ SelectCity(i, cityBox.items[k])
    \/ \E i \in 1..Len(values.addresses) :
          formEdits < MaxPicks /\ ChangeRowField("addresses", i, "streetNumber", JSNumber(7, 0))
    \/ formEdits < MaxPicks /\ ChangeField("hmo", "Maccabi")
    \/ \E row \in 1..Len(streetBox), q \in FormQueries : handleStreetInputChange(row, q)
    \/ \E row \in 1..Len(streetBox) : StreetDebounce(row)
    \/ \E row \in 1..Len(streetBox) : StreetEffect(row)
    \/ \E row \in 1..Len(streetBox) :
          \E k \in 1..Len(streetBox[row].items) :
             formEdits < MaxPicks /\ SelectStreet(row, streetBox[row].items[k])
    \/ \E i \in 1..Len(calls) : Answer(i, AddressAnswer(calls[i].kind))

SpecAddresses == LookupInit /\ [][AddressesNext]_vars

-----------------------------------------------------------------------------
(* The submission: postPatientData of api.ts, posting either to the webhook *)
(* or to the relay api/submit-zapier.js, which forwards to the webhook.      *)
(* An attempt records what the client sent and got, what the relay sent and  *)
(* replied and what the webhook answered.                                    *)

MaxAttempts == 2

\* where the client's ZAPIER_WEBHOOK_URL points (api.ts:25-26): the relay,
\* the webhook itself, or, with VITE_ZAPIER_WEBHOOK_URL unset, the
\* placeholder "YOUR_ZAPIER_WEBHOOK_URL_HERE", which as a relative URL names
\* a path of the page's own origin
Targets == {"relay", "webhook", "placeholder"}

NoAnswer == [kind |-> "none"]

\* what a POST may come back with: a 2xx response with a body, a 2xx response
\* with an empty body, or an error (no connection, timeout, error status)
SuccessBody == [kind |-> "body", data |-> [status |-> "success"]]

HookAnswers ==
    { SuccessBody,
      [kind |-> "body", data |-> [status |-> "error"]],
      [kind |-> "body", data |-> [id |-> "0191"]],
      [kind |-> "empty"],
      [kind |-> "error"] }

\* what the page's origin may answer to a POST to the placeholder path: the
\* page itself, or an error status
OriginAnswers ==
    { [kind |-> "body", data |-> [page |-> "index.html"]],
      [kind |-> "error"] }

\* a check that takes any body for success
IsSuccessBody_AnyBody(answer) == answer.kind = "body"

\* api.ts:246 and submit-zapier.js:39: data && data.status === "success"
IsSuccessBody(answer) ==
    /\ answer.kind = "body"
    /\ Has(answer.data, "status")
    /\ answer.data.status = "success"

\* methods of the requests that reach the relay
Methods == {"POST", "GET"}

\* api.ts:237-240: one POST of the record to ZAPIER_WEBHOOK_URL
NewAttempt(via) ==
    [by |-> "form", via |-> via, method |-> "POST",
     client |-> "waiting", clientPosts |-> 1, received |-> NoAnswer,
     server |-> "idle", zapierUrl |-> "unread", relayPosts |-> 0,
     hook |-> NoAnswer, reply |-> [code |-> 0]]

\* a request to the relay that does not come from the form
OtherRequest(method) ==
    [by |-> "other", via |-> "relay", method |-> method,
     client |-> "none", clientPosts |-> 0, received |-> NoAnswer,
     server |-> "idle", zapierUrl |-> "unread", relayPosts |-> 0,
     hook |-> NoAnswer, reply |-> [code |-> 0]]

\* api.ts:244-279: the client function with what came back: it returns when
\* the body carries the success status and throws otherwise
ClientSettled(a, answer) ==
    [a EXCEPT !.received = answer,
              !.client = IF IsSuccessBody(answer) THEN "resolved" ELSE "threw"]

\* a relay that posts again when the webhook did not confirm
RelayAnswered_Retry(a, answer) ==
    IF IsSuccessBody(answer)
    THEN [a EXCEPT !.hook = answer, !.server = "replied",
                   !.reply = [code |-> 200,
                              body |-> [success |-> TRUE, zapierData |-> answer.data]]]
    ELSE [a EXCEPT !.relayPosts = @ + 1]

\* submit-zapier.js:36-59: the relay with the webhook's answer: 200 with
\* {success: true, zapierData} when the body carries the success status, 500
\* with {error} otherwise
RelayAnswered(a, answer) ==
    IF IsSuccessBody(answer)
    THEN [a EXCEPT !.hook = answer, !.server = "replied",
                   !.reply = [code |-> 200,
                              body |-> [success |-> TRUE, zapierData |-> answer.data]]]
    ELSE [a EXCEPT !.hook = answer, !.server = "replied",
                   !.reply = [code |-> 500, body |-> [error |-> "Failed to submit data."]]]

\* what axios hands to the client for the relay's reply: the body of a 2xx
\* reply, an error for any other status
ReplyAsAnswer(reply) ==
    IF reply.code = 200 THEN [kind |-> "body", data |-> reply.body]
    ELSE [kind |-> "error"]

RelayInit ==
    /\ attempts = <<>> /\ toasts = <<>>
    /\ values = defaultValues /\ isSubmitting = FALSE /\ posted = <<>>
    /\ timers = <<>> /\ marks = 0 /\ formEdits = 0
    /\ cityBox = EmptyBox /\ streetBox = <<EmptyBox>> /\ calls = <<>> /\ typed = 0
    /\ idIn = <<>> /\ idValid = FALSE /\ idEdits = 0
    /\ phIn = <<>> /\ phValid = FALSE /\ phEdits = 0
    /\ raw = defaultValues /\ result = patientSchema(raw) /\ rawEdits = 0

RelayOthers == <<idVars, phVars, rawVars, formVars, lookupVars>>

\* api.ts:232-240: the form submits; no attempt of the form is under way
\* (the submit button is disabled while one is)
postPatientData(via) ==
    /\ Len(attempts) < MaxAttempts
    /\ \A i \in 1..Len(attempts) : attempts[i].client # "waiting"
    /\ attempts' = Append(attempts, NewAttempt(via))
    /\ toasts' = Append(toasts, SubmittingToast)
    /\ UNCHANGED RelayOthers

\* the relay is called by something other than the form
RelayRequested(method) ==
    /\ Len(attempts) < MaxAttempts
    /\ attempts' = Append(attempts, OtherRequest(method))
    /\ UNCHANGED toasts
    /\ UNCHANGED RelayOthers

\* submit-zapier.js:14-34: the relay reads ZAPIER_WEBHOOK_URL of its
\* environment (configured: it is set and is not the placeholder); without it
\* the relay replies 500, with it the relay posts the body to the webhook,
\* once
Forwarding(a, configured) ==
    IF ~configured
    THEN [a EXCEPT !.server = "replied", !.zapierUrl = "unset",
                   !.reply = [code |-> 500,
                              body |-> [error |-> "Server configuration error."]]]
    ELSE [a EXCEPT !.server = "forwarded", !.zapierUrl = "set",
                   !.relayPosts = @ + 1]

\* a relay that takes every method
Handled_AnyMethod(a, configured) == Forwarding(a, configured)

\* submit-zapier.js:5-34: the relay replies 405 to a method other than POST
\* and goes on with a POST
Handled(a, configured) ==
    IF a.method # "POST"
    THEN [a EXCEPT !.server = "replied",
                   !.reply = [code |-> 405,
                              body |-> [error |-> "Method " \o a.method \o " Not Allowed"]]]
    ELSE Forwarding(a, configured)

\* submit-zapier.js:5-34: the relay gets a request
handler(i, configured) ==
    /\ i \in 1..Len(attempts)
    /\ attempts[i].via = "relay"
    /\ attempts[i].server = "idle"
    /\ attempts' = [attempts EXCEPT ![i] = Handled(@, configured)]
    /\ UNCHANGED toasts
    /\ UNCHANGED RelayOthers

\* the webhook answers the relay
WebhookAnswersRelay(i, answer) ==
    /\ i \in 1..Len(attempts)
    /\ attempts[i].server = "forwarded"
    /\ attempts' = [attempts EXCEPT ![i] = RelayAnswered(@, answer)]
    /\ UNCHANGED toasts
    /\ UNCHANGED RelayOthers

\* the webhook answers the client that posted to it directly
WebhookAnswersClient(i, answer) ==
    /\ i \in 1..Len(attempts)
    /\ attempts[i].via = "webhook"
    /\ attempts[i].client = "waiting"
    /\ attempts' = [attempts EXCEPT ![i] = ClientSettled([@ EXCEPT !.hook = answer], answer)]
    /\ toasts' = Replaced(toasts, SubmissionToast(attempts'[i].client = "resolved"))
    /\ UNCHANGED RelayOthers

\* the page's origin answers the client that posted to the placeholder path
OriginAnswersClient(i, answer) ==
    /\ i \in 1..Len(attempts)
    /\ attempts[i].via = "placeholder"
    /\ attempts[i].client = "waiting"
    /\ attempts' = [attempts EXCEPT ![i] = ClientSettled(@, answer)]
    /\ toasts' = Replaced(toasts, SubmissionToast(attempts'[i].client = "resolved"))
    /\ UNCHANGED RelayOthers

\* the relay's reply reaches the client
ClientReceivesReply(i) ==
    /\ i \in 1..Len(attempts)
    /\ attempts[i].via = "relay"
    /\ attempts[i].server = "replied"
    /\ attempts[i].client = "waiting"
    /\ attempts' = [attempts EXCEPT ![i] = ClientSettled(@, ReplyAsAnswer(@.reply))]
    /\ toasts' = Replaced(toasts, SubmissionToast(attempts'[i].client = "resolved"))
    /\ UNCHANGED RelayOthers

\* api.ts:36 and 264-279: the client's request to the relay fails or runs
\* into the 10 s timeout, whatever the relay is doing
ClientRequestFails(i) ==
    /\ i \in 1..Len(attempts)
    /\ attempts[i].via = "relay"
    /\ attempts[i].client = "waiting"
    /\ attempts' = [attempts EXCEPT ![i] = ClientSettled(@, [kind |-> "error"])]
    /\ toasts' = Replaced(toasts, SubmissionToast(attempts'[i].client = "resolved"))
    /\ UNCHANGED RelayOthers

RelayNext ==
    \/ \E via \in Targets : postPatientData(via)
    \/ \E method \in Methods : RelayRequested(method)
    \/ \E i \in 1..Len(attempts), configured \in BOOLEAN : handler(i, configured)
    \/ \E i \in 1..Len(attempts), answer \in HookAnswers : WebhookAnswersRelay(i, answer)
    \/ \E i \in 1..Len(attempts), answer \in HookAnswers : WebhookAnswersClient(i, answer)
    \/ \E i \in 1..Len(attempts), answer \in OriginAnswers : OriginAnswersClient(i, answer)
    \/ \E i \in 1..Len(attempts) : ClientReceivesReply(i)
    \/ \E i \in 1..Len(attempts) : ClientRequestFails(i)

SpecRelay == RelayInit /\ [][RelayNext]_vars

-----------------------------------------------------------------------------
(* Properties of the submit path *)

\* C5: postPatientData is only ever invoked with a record for which
\* validation produced zero errors: every record handed to it passes
\* patientSchema without an issue, has at least one phone and one address,
\* and has exactly one phone marked main.
C5_PostedRecordsValid ==
    \A i \in 1..Len(posted) :
        /\ patientSchema(posted[i]).success
        /\ patientSchema(posted[i]).issues = <<>>
        /\ Len(posted[i].phoneNumbers) >= 1
        /\ Len(posted[i].addresses) >= 1
        /\ Cardinality({j \in 1..Len(posted[i].phoneNumbers) :
                            posted[i].phoneNumbers[j].isMain}) = 1

\* a filled-in form has been submitted and its record handed over
C5_Witness ==
    /\ isSubmitting
    /\ Len(posted) > 0
    /\ formEdits > 0
    /\ values # defaultValues

-----------------------------------------------------------------------------
(* Properties of the identifier validator *)

DigitChars == <<"0", "1", "2", "3", "4", "5", "6", "7", "8", "9">>

DigitOf(c) == (CHOOSE k \in 1..10 : DigitChars[k] = c) - 1

IsNineDigits(s) == Len(s) = 9 /\ \A i \in 1..9 : s[i] \in Digit

\* The adjusted product of the digit at 0-based position pos: the digit times
\* 1 at even positions and times 2 at odd ones, less 9 when it exceeds 9.
AdjustedProduct(s, pos) ==
    LET product == DigitOf(s[pos + 1]) * (IF pos % 2 = 0 THEN 1 ELSE 2)
    IN  IF product > 9 THEN product - 9 ELSE product

ChecksumOf(s) ==
    AdjustedProduct(s, 0) + AdjustedProduct(s, 1) + AdjustedProduct(s, 2)
  + AdjustedProduct(s, 3) + AdjustedProduct(s, 4) + AdjustedProduct(s, 5)
  + AdjustedProduct(s, 6) + AdjustedProduct(s, 7) + AdjustedProduct(s, 8)

\* C1: a string of exactly 9 ASCII digits is accepted by the identifier
\* validator iff the sum of its adjusted products is divisible by 10;
\* "000000018" is accepted and "123456789" is rejected.
C1_ChecksumDecides ==
    /\ IsNineDigits(idIn) => (idValid <=> ChecksumOf(idIn) % 10 = 0)
    /\ isValidIsraeliId(<<"0","0","0","0","0","0","0","1","8">>)
    /\ ~isValidIsraeliId(<<"1","2","3","4","5","6","7","8","9">>)

\* an edited 9-digit identifier that the validator accepted
C1_Witness == idEdits > 0 /\ IsNineDigits(idIn) /\ idValid

\* C2: every input that is not exactly 9 ASCII digits is answered false (the
\* validator always answers with a boolean).
C2_WrongShapeRejected ==
    /\ idValid \in BOOLEAN
    /\ ~IsNineDigits(idIn) => idValid = FALSE

\* a rejected 9-character input holding a character that is not a digit
C2_Witness ==
    /\ idEdits > 0
    /\ Len(idIn) = 9
    /\ \E i \in 1..9 : idIn[i] \notin Digit
    /\ idValid = FALSE

\* C3: replacing any single digit of an accepted identifier by a different
\* digit gives an identifier the validator rejects.
C3_SingleDigitChangeRejected ==
    (IsNineDigits(idIn) /\ idValid) =>
        \A i \in 1..9 : \A d \in Digit \ {idIn[i]} :
            ~isValidIsraeliId([idIn EXCEPT ![i] = d])

\* a rejected identifier one digit away from an accepted one, reached by
\* replacing that digit
C3_Witness ==
    /\ idEdits > 0
    /\ IsNineDigits(idIn)
    /\ ~idValid
    /\ \E i \in 1..9 : \E d \in Digit \ {idIn[i]} :
          /\ [idIn EXCEPT ![i] = d] \in IdSeeds
          /\ isValidIsraeliId([idIn EXCEPT ![i] = d])

-----------------------------------------------------------------------------
(* Properties of the phone validator *)

DigitsOnly(s) == SelectSeq(s, LAMBDA c : c \in Digit)

\* 0, then one of the prefixes 2, 3, 4, 5d, 7d (d in 1..9), 8, 9, then
\* exactly 7 more digits
DomesticShape(d) ==
    /\ Len(d) >= 2
    /\ d[1] = "0"
    /\ \/ d[2] \in {"2", "3", "4", "8", "9"} /\ Len(d) = 2 + 7
       \/ d[2] = "5" /\ Len(d) = 3 + 7
       \/ d[2] = "7" /\ Len(d) = 3 + 7 /\ d[3] # "0"

\* C4: the phone validator accepts exactly the inputs whose digits form a
\* domestic number; "050-123-4567" and "02-1234567" are accepted, "1234567"
\* and "" are rejected.
C4_PhoneShapeDecides ==
    /\ phValid <=> DomesticShape(DigitsOnly(phIn))
    /\ isValidIsraeliPhoneNumber(<<"0","5","0","-","1","2","3","-","4","5","6","7">>)
    /\ isValidIsraeliPhoneNumber(<<"0","2","-","1","2","3","4","5","6","7">>)
    /\ ~isValidIsraeliPhoneNumber(<<"1","2","3","4","5","6","7">>)
    /\ ~isValidIsraeliPhoneNumber(<<>>)

\* an edited input with formatting characters that the validator accepted
C4_Witness ==
    /\ phEdits > 0
    /\ phValid
    /\ \E i \in 1..Len(phIn) : phIn[i] \notin Digit

-----------------------------------------------------------------------------
(* Properties of the record schema *)

PhonesPath == <<"phoneNumbers">>

AddressesPath == <<"addresses">>

MarkedMain(p) == Has(p, "isMain") /\ p.isMain

MainEntries == {i \in 1..Len(raw.phoneNumbers) : MarkedMain(raw.phoneNumbers[i])}

\* the phone list as the rule reads it: each entry's main flag
MainFlags ==
    [i \in 1..Len(raw.phoneNumbers) |-> [isMain |-> MarkedMain(raw.phoneNumbers[i])]]

TypeInEnum(entry, key, options) ==
    Has(entry, key) /\ \E i \in 1..Len(options) : entry[key] = options[i]

\* every entry has a type of the enum, so that no entry stops the list's parse
PhonesWellTyped ==
    \A i \in 1..Len(raw.phoneNumbers) :
        TypeInEnum(raw.phoneNumbers[i], "type", phoneTypeEnum)

RuleMessages == {"One phone number must be marked as main.", "Only one phone can be main."}

IsRuleIssue(issue) == issue.message \in RuleMessages

\* the issues of the last validation that the main-phone rule added
RuleIssuesReported == SelectSeq(result.issues, IsRuleIssue)

IssuesAt(issues, path) == {k \in 1..Len(issues) : issues[k].path = path}

MainPath(i) == <<"phoneNumbers", Index(i), "isMain">>

\* C6: the main-phone rule puts an error on the array root iff no entry is
\* marked main; it is then its only error; with exactly one main entry the
\* rule adds no error.  The issues validation reports for the rule are the
\* rule's.
C6_RootErrorIffNoMain ==
    /\ (IssuesAt(MainPhoneRule(MainFlags, PhonesPath), PhonesPath) # {})
          <=> (MainEntries = {})
    /\ MainEntries = {} =>
          /\ Len(MainPhoneRule(MainFlags, PhonesPath)) = 1
          /\ MainPhoneRule(MainFlags, PhonesPath)[1].path = PhonesPath
    /\ Cardinality(MainEntries) = 1 => MainPhoneRule(MainFlags, PhonesPath) = <<>>
    /\ PhonesWellTyped => RuleIssuesReported = MainPhoneRule(MainFlags, PhonesPath)

\* a validated list of two or more entries, none of them main
C6_Witness ==
    /\ rawEdits > 0
    /\ Len(raw.phoneNumbers) >= 2
    /\ PhonesWellTyped
    /\ MainEntries = {}
    /\ Cardinality(IssuesAt(RuleIssuesReported, PhonesPath)) = 1

\* C7: with more than one entry marked main the rule adds exactly one error
\* to each main entry, none to the other entries and none to the array root.
C7_OneErrorPerMainEntry ==
    Cardinality(MainEntries) > 1 =>
      /\ \A i \in 1..Len(raw.phoneNumbers) :
            Cardinality(IssuesAt(MainPhoneRule(MainFlags, PhonesPath), MainPath(i)))
                = (IF i \in MainEntries THEN 1 ELSE 0)
      /\ IssuesAt(MainPhoneRule(MainFlags, PhonesPath), PhonesPath) = {}
      /\ Len(MainPhoneRule(MainFlags, PhonesPath)) = Cardinality(MainEntries)
      /\ PhonesWellTyped => RuleIssuesReported = MainPhoneRule(MainFlags, PhonesPath)

\* a validated list with two main entries and an entry that is not main
C7_Witness ==
    /\ rawEdits > 0
    /\ PhonesWellTyped
    /\ Cardinality(MainEntries) >= 2
    /\ Cardinality(MainEntries) < Len(raw.phoneNumbers)
    /\ Len(RuleIssuesReported) = Cardinality(MainEntries)

ReportedPaths == {result.issues[k].path : k \in 1..Len(result.issues)}

When(violated, path) == IF violated THEN {path} ELSE {}

\* the street number as a number, NaN when it is none
AsNumber(a) ==
    IF ~Has(a, "streetNumber") THEN JSNaN
    ELSE IF a.streetNumber.kind = "string" THEN StringToNumber(a.streetNumber.text)
    ELSE a.streetNumber

IsIntegerAtLeastOne(n) == n.kind = "number" /\ n.scale <= 0 /\ n.coef >= 1

\* the paths of the fields of phone entry i whose constraint is violated
PhoneViolations(i) ==
    When(~TypeInEnum(raw.phoneNumbers[i], "type", phoneTypeEnum),
         <<"phoneNumbers", Index(i), "type">>)
    \cup When(~DomesticShape(DigitsOnly(raw.phoneNumbers[i].number)),
              <<"phoneNumbers", Index(i), "number">>)

\* the paths of the fields of address entry i whose constraint is violated
AddressViolations(i) ==
    UNION { When(raw.addresses[i][key] = "", <<"addresses", Index(i), key>>) :
              key \in {"cityCode", "cityName", "streetCode", "streetName"} }
    \cup When(~IsIntegerAtLeastOne(AsNumber(raw.addresses[i])),
              <<"addresses", Index(i), "streetNumber">>)
    \cup When(~TypeInEnum(raw.addresses[i], "addressType", addressTypeEnum),
              <<"addresses", Index(i), "addressType">>)
    \cup When(Has(raw.addresses[i], "comments")
                /\ Len(raw.addresses[i].comments) > 500,
              <<"addresses", Index(i), "comments">>)

\* the paths of all fields of the raw record whose constraint is violated
FieldViolations ==
    When(~(IsNineDigits(raw.id) /\ ChecksumOf(raw.id) % 10 = 0), <<"id">>)
    \cup When(Trim(raw.firstName) = <<>>, <<"firstName">>)
    \cup When(Trim(raw.lastName) = <<>>, <<"lastName">>)
    \cup When(~TypeInEnum(raw, "hmo", hmoEnum), <<"hmo">>)
    \cup When(raw.phoneNumbers = <<>>, PhonesPath)
    \cup When(raw.addresses = <<>>, AddressesPath)
    \cup UNION {PhoneViolations(i) : i \in 1..Len(raw.phoneNumbers)}
    \cup UNION {AddressViolations(i) : i \in 1..Len(raw.addresses)}

\* every violated field has an error at its own path
FieldErrorsReported == FieldViolations \subseteq ReportedPaths

\* the main-phone rule's errors are in the result: the root error when no
\* entry is main, an error on each main entry when several are
MainRuleErrorsReported ==
    /\ MainEntries = {} =>
          \E k \in IssuesAt(result.issues, PhonesPath) : IsRuleIssue(result.issues[k])
    /\ Cardinality(MainEntries) > 1 =>
          \A i \in MainEntries :
             \E k \in IssuesAt(result.issues, MainPath(i)) : IsRuleIssue(result.issues[k])

\* C8: validation reports every violation in one pass: each violated field
\* has an error at its own path, and the main-phone rule's errors are reported
\* together with the per-entry errors.
C8_AllViolationsReported == FieldErrorsReported /\ MainRuleErrorsReported

\* the main-phone rule's errors are reported whenever every phone entry has a
\* type of the enum
C8_ReportedWhenWellTyped ==
    FieldErrorsReported /\ (PhonesWellTyped => MainRuleErrorsReported)

\* C9: a raw record whose phone list or address list is empty is rejected with
\* an error on that list, whatever the other fields hold.
C9_EmptyListRejected ==
    /\ raw.phoneNumbers = <<>> =>
          ~result.success /\ IssuesAt(result.issues, PhonesPath) # {}
    /\ raw.addresses = <<>> =>
          ~result.success /\ IssuesAt(result.issues, AddressesPath) # {}

\* the filled-in record with its only address removed, and nothing else wrong
C9_Witness ==
    /\ rawEdits > 0
    /\ raw.addresses = <<>>
    /\ ReportedPaths = {AddressesPath}

\* C10 as stated: the normalized record of an accepted raw record equals the
\* raw record in all fields.
C10_NormalizedEqualsRaw == result.success => result.data = raw

\* the fields of obj that are among keys
Only(obj, keys) == [k \in DOMAIN obj \cap keys |-> obj[k]]

NormalizedPhone(p) ==
    Put(Only(p, {"type", "number", "isMain"}), "isMain", MarkedMain(p))

NormalizedAddress(a) ==
    Put(Only(a, {"cityCode", "cityName", "streetCode", "streetName",
                 "streetNumber", "addressType", "comments"}),
        "streetNumber", AsNumber(a))

\* the raw record without the fields that the schema does not declare, with
\* its names trimmed, its street numbers coerced to numbers and a missing
\* main flag set to false
Normalized(rec) ==
    [Only(rec, {"id", "firstName", "lastName", "phoneNumbers", "hmo", "addresses"})
        EXCEPT !.firstName = Trim(@),
               !.lastName = Trim(@),
               !.phoneNumbers = [i \in 1..Len(@) |-> NormalizedPhone(@[i])],
               !.addresses = [i \in 1..Len(@) |-> NormalizedAddress(@[i])]]

\* C10 amended: the normalized record of an accepted raw record is the raw
\* record without the fields that the schema does not declare, with
\* firstName and lastName trimmed, every streetNumber coerced to a number
\* and a missing isMain set to false; all other fields are equal.
C10_NormalizedUpToCoercion == result.success => result.data = Normalized(raw)

\* an accepted record whose normalized form differs from it in a name and in
\* a street number, and is without a field of it that the schema does not
\* declare
C10_Witness ==
    /\ result.success
    /\ result.data.firstName # raw.firstName
    /\ result.data.addresses[1].streetNumber # raw.addresses[1].streetNumber
    /\ Has(raw, "middleName")
    /\ ~Has(result.data, "middleName")

\* C11: validation is idempotent on accepted records: validating the
\* normalized record of an accepted raw record reports no error and returns
\* that normalized record unchanged.
C11_ValidationIdempotent ==
    result.success =>
        patientSchema(result.data) =
            [success |-> TRUE, issues |-> <<>>, data |-> result.data]

\* an accepted raw record that normalization changed
C11_Witness ==
    /\ rawEdits > 0
    /\ result.success
    /\ result.data # raw
    /\ patientSchema(result.data).success

StreetNumberPath(i) == <<"addresses", Index(i), "streetNumber">>

\* what Number(text) is in JavaScript for texts given as street numbers
NumberExamples ==
    { <<JSString(<<"5">>), JSNumber(5, 0)>>,
      <<JSString(<<" ","4","2"," ">>), JSNumber(42, 0)>>,
      <<JSString(<<"2",".","5">>), JSNumber(25, 1)>>,
      <<JSString(<<"-","3">>), JSNumber(-3, 0)>>,
      <<JSString(<<>>), JSNumber(0, 0)>>,
      <<JSString(<<"7","a">>), JSNaN>>,
      <<JSString(<<"5",".">>), JSNumber(5, 0)>>,
      <<JSString(<<".","5">>), JSNumber(5, 1)>>,
      <<JSString(<<"+","5">>), JSNumber(5, 0)>>,
      <<JSString(<<"1","e","1">>), JSNumber(1, -1)>>,
      <<JSString(<<"1",".","2","5">>), JSNumber(125, 2)>>,
      <<JSString(<<"0","x","1","0">>), JSNumber(16, 0)>>,
      <<JSString(<<"-","I","n","f","i","n","i","t","y">>),
        [JSInfinity EXCEPT !.coef = -1]>>,
      <<JSString(<<NoBreakSpace,"5">>), JSNumber(5, 0)>>,
      <<JSString(<<ZeroWidthNoBreakSpace>>), JSNumber(0, 0)>>,
      <<JSString(<<"1","e","4","0","0">>), JSInfinity>>,
      <<JSString(<<"3","e","1","0">>), JSNumber(3, -10)>>,
      <<JSString(<<"0",".">> \o ManyZeros \o <<"1","e","1","0","0","0","1">>),
        JSNumber(1, 0)>>,
      <<JSString(<<"0",".">> \o ManyZeros \o <<"1","5","e","1","0","0","0","1">>),
        JSNumber(15, 1)>>,
      <<JSString(<<"1","e","1","0","0","0","1">>), JSInfinity>>,
      <<JSString(<<"0",".","0","0","0","1","5","e","5">>), JSNumber(15, 0)>>,
      <<JSString(<<"5",".","0","0","0","0","0","0","0","0","0","0">>),
        JSNumber(5, 0)>> }

\* C12: an address entry's street number passes exactly when the input,
\* coerced to a number, is an integer of at least 1; every other input has an
\* error at the entry's streetNumber path; an accepted record holds the
\* coerced integer.  The coerced number of a text is the one JavaScript
\* gives for it.
C12_StreetNumberCoerced ==
    \A i \in 1..Len(raw.addresses) :
        /\ (IssuesAt(result.issues, StreetNumberPath(i)) = {})
              <=> IsIntegerAtLeastOne(AsNumber(raw.addresses[i]))
        /\ result.success =>
              /\ IsIntegerAtLeastOne(result.data.addresses[i].streetNumber)
              /\ result.data.addresses[i].streetNumber = AsNumber(raw.addresses[i])
        /\ \A e \in NumberExamples :
              (Has(raw.addresses[i], "streetNumber")
                  /\ raw.addresses[i].streetNumber = e[1])
                 => AsNumber(raw.addresses[i]) = e[2]
        /\ (Has(raw.addresses[i], "streetNumber")
               /\ raw.addresses[i].streetNumber.kind = "string")
              => \E e \in NumberExamples : raw.addresses[i].streetNumber = e[1]

\* an accepted record whose street number was given as a text with a long
\* fraction and an exponent that makes up for it
C12_Witness ==
    /\ result.success
    /\ raw.addresses[1].streetNumber.kind = "string"
    /\ Len(raw.addresses[1].streetNumber.text) > Len(ManyZeros)
    /\ result.data.addresses[1].streetNumber = JSNumber(1, 0)

-----------------------------------------------------------------------------
(* Properties of the lookups *)

Codes(records) == {records[k].code : k \in 1..Len(records)}

\* C13: a lookup whose query has length 0 or 1 sends no request and returns
\* an empty list at once; the form never calls a lookup, and so never sends a
\* request, for a debounced query shorter than 2 characters.
C13_ShortQueryNoRequest ==
    \A i \in 1..Len(calls) :
        /\ Len(calls[i].query) < 2 =>
              /\ ~calls[i].sent
              /\ calls[i].net = "none"
              /\ calls[i].state = "returned"
              /\ calls[i].result = <<>>
        /\ calls[i].caller = "form" => Len(calls[i].query) >= 2

\* fetchStreets was called with a one-character query and a city code
C13_Witness ==
    \E i \in 1..Len(calls) :
        /\ calls[i].kind = "street"
        /\ Len(calls[i].query) = 1
        /\ calls[i].cityCode # ""
        /\ calls[i].state = "returned"

\* C14: the list a lookup returns for a successful response holds no two
\* candidates with the same code, and every code of the response records is
\* in it.
C14_ResultCodesUnique ==
    \A i \in 1..Len(calls) :
        (calls[i].net = "answered" /\ calls[i].state = "returned") =>
            /\ \A k, l \in 1..Len(calls[i].result) :
                  calls[i].result[k].code = calls[i].result[l].code => k = l
            /\ Codes(calls[i].result) = Codes(calls[i].body.records)

\* a response with a repeated code has been returned as a shorter list
C14_Witness ==
    \E i \in 1..Len(calls) :
        /\ calls[i].net = "answered"
        /\ calls[i].state = "returned"
        /\ Len(calls[i].result) < Len(calls[i].body.records)

\* C15: a lookup whose request is cancelled returns an empty list and does not
\* throw; a request that fails otherwise, or a response that is no success,
\* makes the lookup throw.
C15_CancelReturnsEmpty ==
    \A i \in 1..Len(calls) :
        /\ calls[i].net = "cancelled" =>
              calls[i].state = "returned" /\ calls[i].result = <<>>
        /\ calls[i].net = "error" => calls[i].state = "threw"
        /\ (calls[i].net = "answered"
              /\ ~(calls[i].body.success /\ Has(calls[i].body, "records"))) =>
              calls[i].state = "threw"

\* a call given a signal was cancelled while its request was out
C15_Witness ==
    \E i \in 1..Len(calls) :
        calls[i].sent /\ calls[i].signal /\ calls[i].net = "cancelled"

\* the calls the form made for a combobox
FormCalls(kind, row) ==
    {i \in 1..Len(calls) :
        calls[i].caller = "form" /\ calls[i].kind = kind /\ calls[i].row = row}

\* the list of a combobox is that of the last call made for it, and of the
\* query the combobox now holds
ListIsLatest(box, kind, row) ==
    box.from # 0 =>
        /\ \A j \in FormCalls(kind, row) : j <= box.from
        /\ calls[box.from].query = box.ran.debounced

\* C16: the displayed candidates always belong to the most recent query
\* issued for them; the response to an older query never becomes the
\* displayed list.
C16_ListBelongsToLatestQuery ==
    /\ ListIsLatest(cityBox, "city", 0)
    /\ \A row \in 1..Len(streetBox) : ListIsLatest(streetBox[row], "street", row)

Outstanding(kind, row) == {i \in FormCalls(kind, row) : calls[i].state = "pending"}

\* C17: at most one lookup request is outstanding for the city combobox and
\* for each row's street combobox.
C17_OneOutstandingPerRow ==
    /\ Cardinality(Outstanding("city", 0)) <= 1
    /\ \A row \in 1..Len(streetBox) : Cardinality(Outstanding("street", row)) <= 1

\* the debounced value of the combobox changes in this step only to the
\* value its input holds, and after the step at most one timer is pending
DebouncedFollows(box, after) ==
    /\ Len(after.timer) <= 1
    /\ after.debounced # box.debounced =>
          /\ after.debounced = box.query
          /\ after.query = box.query
          /\ box.timer = <<box.query>>

\* C24: the debounced query of a combobox changes only to the value the
\* input holds when its timer fires, the timer being the single one pending
\* and set for that value: a change of the input clears the pending timer.
C24_DebouncedValueWasHeld ==
    [][ /\ DebouncedFollows(cityBox, cityBox')
        /\ \A row \in 1..Len(streetBox) :
              row \in 1..Len(streetBox') => DebouncedFollows(streetBox[row], streetBox'[row])
      ]_vars

\* the city input went through two values and the debounced query is the
\* second one, without the first having been looked up
C24_Witness ==
    /\ typed = 2
    /\ cityBox.query = <<"t","e","l">>
    /\ cityBox.debounced = <<"t","e","l">>
    /\ cityBox.timer = <<>>
    /\ \A i \in FormCalls("city", 0) : calls[i].query = <<"t","e","l">>
    /\ FormCalls("city", 0) # {}

\* call i of the form fails in this step
FailsNow(i) ==
    /\ calls[i].caller = "form"
    /\ calls[i].state = "pending"
    /\ Len(calls') = Len(calls)
    /\ calls'[i].state = "threw"

\* C23: when a lookup of the form fails, the candidate list of its combobox
\* is empty after that step, an error toast has been added for the user, and
\* the record is what it was.
C23_FailedLookupEmptiesList ==
    [][ \A i \in 1..Len(calls) :
          FailsNow(i) =>
            /\ calls[i].kind = "city" => cityBox'.items = <<>>
            /\ (calls[i].kind = "street" /\ calls[i].row \in 1..Len(streetBox')) =>
                  streetBox'[calls[i].row].items = <<>>
            /\ toasts' = Append(toasts, LookupToast(calls[i].kind))
            /\ values' = values ]_vars

\* a city lookup of the form has failed, another one had returned
\* candidates, the list is empty and the error toast is there
C23_Witness ==
    /\ \E i \in FormCalls("city", 0) : calls[i].sent /\ calls[i].state = "threw"
    /\ \E i \in FormCalls("city", 0) : calls[i].state = "returned" /\ calls[i].result # <<>>
    /\ cityBox.items = <<>>
    /\ cityBox.from = 0
    /\ \E t \in 1..Len(toasts) : toasts[t] = LookupToast("city")

\* C26: a street held by an address row was in the result of a lookup made
\* for the city code the row now holds.
C26_StreetOfSelectedCity ==
    \A row \in 1..Len(streetBox) :
        (row \in 1..Len(values.addresses) /\ values.addresses[row].streetCode # "") =>
            /\ streetBox[row].picked \in 1..Len(calls)
            /\ calls[streetBox[row].picked].cityCode = values.addresses[row].cityCode

\* C29: the loading flag of the city combobox is up exactly while a city
\* lookup of the form is in flight: the end of an older request does not
\* take it down while a newer one is pending.
C29_LoadingWhileInFlight ==
    cityBox.loading <=> (Outstanding("city", 0) # {})

-----------------------------------------------------------------------------
(* Properties of the submission *)

\* C18: an attempt makes exactly one network submission from the client and
\* then resolves or throws; the relay posts to the webhook exactly once for a
\* request it forwards and never again after a failure; nothing is retried.
C18_SingleSubmission ==
    \A i \in 1..Len(attempts) :
        /\ attempts[i].by = "form" => attempts[i].clientPosts = 1
        /\ attempts[i].relayPosts <= 1
        /\ attempts[i].server = "forwarded" => attempts[i].relayPosts = 1
        /\ attempts[i].hook # NoAnswer =>
              attempts[i].relayPosts = (IF attempts[i].via = "relay" THEN 1 ELSE 0)
        /\ (attempts[i].via = "relay" /\ attempts[i].hook # NoAnswer) =>
              attempts[i].server = "replied"

\* the webhook refused what the relay forwarded and the client has failed
C18_Witness ==
    \E i \in 1..Len(attempts) :
        /\ attempts[i].by = "form"
        /\ attempts[i].via = "relay"
        /\ attempts[i].hook.kind = "error"
        /\ attempts[i].reply.code = 500
        /\ attempts[i].client = "threw"

\* C19: a submission is a success iff the response carries a status equal to
\* "success": the client function returns for such a response and throws for
\* any other status, a missing status, no body or an error; the relay answers
\* 200 for such a webhook response and 500 for any other.
C19_SuccessIffStatusToken ==
    \A i \in 1..Len(attempts) :
        /\ attempts[i].client = "resolved" <=>
              /\ attempts[i].received.kind = "body"
              /\ "status" \in DOMAIN attempts[i].received.data
              /\ attempts[i].received.data.status = "success"
        /\ attempts[i].client = "threw" <=>
              /\ attempts[i].received # NoAnswer
              /\ attempts[i].received.kind = "body" =>
                    \/ "status" \notin DOMAIN attempts[i].received.data
                    \/ attempts[i].received.data.status # "success"
        /\ attempts[i].hook # NoAnswer /\ attempts[i].via = "relay" =>
              /\ attempts[i].reply.code = 200 <=> attempts[i].hook = SuccessBody
              /\ attempts[i].reply.code = 500 <=> attempts[i].hook # SuccessBody

\* the webhook answered the client with a body that has no status
C19_Witness ==
    \E i \in 1..Len(attempts) :
        /\ attempts[i].via = "webhook"
        /\ attempts[i].received.kind = "body"
        /\ "status" \notin DOMAIN attempts[i].received.data
        /\ attempts[i].client = "threw"

\* C20: when the client submits through the relay and the webhook answers the
\* relay with the success status, the client's submission resolves as a
\* success once the relay's reply has reached it.
C20_RelayedSuccessResolves ==
    \A i \in 1..Len(attempts) :
        (/\ attempts[i].via = "relay"
         /\ attempts[i].hook = SuccessBody
         /\ attempts[i].received.kind = "body") =>
            attempts[i].client = "resolved"

-----------------------------------------------------------------------------
(* Properties of the form after a submission *)

\* the submission under way ends in this step with the given kind of toast
SettlesWith(kind) ==
    /\ isSubmitting /\ ~isSubmitting'
    /\ \E i \in 1..Len(toasts) : toasts[i] = SubmittingToast /\ toasts'[i].kind = kind

\* C21: the step that ends a submission resets the record to the default
\* values when the submission succeeded and leaves the record as it is when
\* it failed; it never hands a record to postPatientData again, and every
\* such step is one of the two.
C21_ResetIffSucceeded ==
    [][ /\ SettlesWith("success") => values' = defaultValues
        /\ SettlesWith("error") => values' = values
        /\ (isSubmitting /\ ~isSubmitting') =>
              /\ posted' = posted
              /\ SettlesWith("success") \/ SettlesWith("error") ]_vars

\* a submission failed and the form still holds the record that was sent,
\* which is not the default one
C21_Witness ==
    /\ ~isSubmitting
    /\ \E i \in 1..Len(toasts) : toasts[i] = SubmissionToast(FALSE)
    /\ Len(posted) = 1
    /\ patientSchema(values).success
    /\ patientSchema(values).data = posted[1]
    /\ values # defaultValues

-----------------------------------------------------------------------------
(* Properties of the submission without configuration *)

\* the attempt was made with the endpoint of the client or of the relay not
\* configured
Unconfigured(a) ==
    /\ a.by = "form"
    /\ a.via = "placeholder" \/ (a.via = "relay" /\ a.zapierUrl = "unset")

\* C22: an attempt made without a configured endpoint sends the record
\* nowhere (the client makes no request when its URL is the placeholder, the
\* relay makes none when its URL is missing), never succeeds, and ends with
\* an error shown to the user.
C22_UnconfiguredFailsUnsent ==
    \A i \in 1..Len(attempts) :
        Unconfigured(attempts[i]) =>
            /\ attempts[i].via = "placeholder" => attempts[i].clientPosts = 0
            /\ attempts[i].via = "relay" => attempts[i].relayPosts = 0
            /\ attempts[i].client # "resolved"
            /\ attempts[i].client = "threw" =>
                  \E t \in 1..Len(toasts) : toasts[t] = SubmissionToast(FALSE)

\* the relay on its own: without its URL the relay forwards nothing and
\* replies 500, and the client shows an error
RelayUnconfiguredFailsUnsent ==
    \A i \in 1..Len(attempts) :
        (attempts[i].via = "relay" /\ attempts[i].zapierUrl = "unset") =>
            /\ attempts[i].relayPosts = 0 /\ attempts[i].hook = NoAnswer
            /\ attempts[i].reply.code = 500
            /\ attempts[i].client # "resolved"
            /\ attempts[i].client = "threw" =>
                  \E t \in 1..Len(toasts) : toasts[t] = SubmissionToast(FALSE)

-----------------------------------------------------------------------------
(* Properties of the relay *)

\* C25: the relay answers a request whose method is not POST with 405 and
\* posts nothing to the webhook for it; every request it forwards is a POST.
C25_OnlyPostForwarded ==
    \A i \in 1..Len(attempts) :
        /\ (attempts[i].method # "POST" /\ attempts[i].server # "idle") =>
              /\ attempts[i].server = "replied"
              /\ attempts[i].reply.code = 405
        /\ attempts[i].method # "POST" =>
              /\ attempts[i].relayPosts = 0
              /\ attempts[i].hook = NoAnswer
        /\ attempts[i].relayPosts > 0 => attempts[i].method = "POST"

\* the relay has answered a GET
C25_Witness ==
    \E i \in 1..Len(attempts) :
        /\ attempts[i].method = "GET"
        /\ attempts[i].server = "replied"
        /\ attempts[i].reply.code = 405

-----------------------------------------------------------------------------
(* Properties of the phone list of the form *)

MainRows == {i \in 1..Len(values.phoneNumbers) : values.phoneNumbers[i].isMain}

\* C27: from the default form, after any adding, removing and checking as
\* main of phone rows, when no deferred step of a removal is pending the
\* phone list is empty or has exactly one row marked main.
C27_OneMainWhenSettled ==
    timers = <<>> =>
        \/ Len(values.phoneNumbers) = 0
        \/ Cardinality(MainRows) = 1

\* a deferred step has marked a row, nothing is pending and several rows
\* are there, the second of them the main one
C27_Witness ==
    /\ timers = <<>>
    /\ marks >= 1
    /\ Len(values.phoneNumbers) >= 2
    /\ MainRows = {2}

\* the phone list with its first row marked main
FirstMarked ==
    [values.phoneNumbers EXCEPT ![1] = Put(@, "isMain", TRUE)]

\* C28: the deferred step of a removal that took the main row marks the row
\* that is first when it runs, and only that one, if rows remain and none is
\* main; the deferred step of a removal that took another row changes
\* nothing, and the removal itself changes no flag of the rows that stay.
C28_FixUpMarksFirst ==
    [][ /\ Len(timers') < Len(timers) =>
              IF /\ Head(timers)
                 /\ Len(values.phoneNumbers) > 0
                 /\ MainRows = {}
              THEN values' = Put(values, "phoneNumbers", FirstMarked)
              ELSE values' = values
        /\ Len(timers') > Len(timers) =>
              \E index \in 1..Len(values.phoneNumbers) :
                  /\ values' = Put(values, "phoneNumbers",
                                   RemoveAt(values.phoneNumbers, index))
                  /\ timers' = Append(timers, values.phoneNumbers[index].isMain)
      ]_vars

\* the main row was removed with two rows staying, and the deferred step
\* has marked the first of them
C28_Witness ==
    /\ marks >= 1
    /\ timers = <<>>
    /\ Len(values.phoneNumbers) = 2
    /\ MainRows = {1}
    /\ formEdits = 3

-----------------------------------------------------------------------------
(* Properties of the address rows *)

\* a city is picked in row i in this step: the row gets a city code it did
\* not have, or keeps its code and loses its street
CityPicked(i) ==
    /\ Len(values'.addresses) = Len(values.addresses)
    /\ values'.addresses[i].cityCode # ""
    /\ \/ values'.addresses[i].cityCode # values.addresses[i].cityCode
       \/ /\ values.addresses[i].streetCode # ""
          /\ values'.addresses[i].streetCode = ""

\* C30: picking a city in row i gives the row the code and name of one
\* city, an empty street code and name and street number 1, empties the
\* row's street candidates, and changes no other field of the row, no other
\* row and no field outside the addresses.
C30_CitySelectionFrame ==
    [][ \A i \in 1..Len(values.addresses) :
          CityPicked(i) =>
            /\ \E k \in 1..Len(cityBox.items) :
                  /\ values'.addresses[i].cityCode = cityBox.items[k].code
                  /\ values'.addresses[i].cityName = cityBox.items[k].name
            /\ values'.addresses[i].streetCode = ""
            /\ values'.addresses[i].streetName = ""
            /\ values'.addresses[i].streetNumber = JSNumber(1, 0)
            /\ values'.addresses[i].addressType = values.addresses[i].addressType
            /\ values'.addresses[i].comments = values.addresses[i].comments
            /\ streetBox'[i].items = <<>>
            /\ \A j \in 1..Len(values.addresses) :
                  j # i => values'.addresses[j] = values.addresses[j]
            /\ \A k \in DOMAIN values \ {"addresses"} : values'[k] = values[k]
      ]_vars

\* row 1 held a street picked from the answer of a lookup for one city and
\* then had another city picked: it holds that city and no street, and its
\* candidate list is empty
C30_Witness ==
    /\ streetBox[1].picked \in 1..Len(calls)
    /\ calls[streetBox[1].picked].cityCode # values.addresses[1].cityCode
    /\ values.addresses[1].cityCode # ""
    /\ values.addresses[1].streetCode = ""
    /\ streetBox[1].items = <<>>

=============================================================================
